---- MODULE Spec2Model ----
(***************************************************************************)
(* Process supervisor of the panel (ProcessManager + StatePersistence) and *)
(* the log watcher of LogManager.                                          *)
(* Every await point of the Rust code is one step: the tokio RwLock over   *)
(* the live map is the variable wlock, the JSON state file is stateFile,   *)
(* and a load-modify-save of the file is two steps (load, then save).      *)
(* The order and mode in which each operation takes the four RwLocks is    *)
(* modelled apart from the data, in locks and tasks.                       *)
(***************************************************************************)
EXTENDS Naturals, Integers, Sequences, FiniteSets, Bags, TLC

(* ---------------------------- bounds ---------------------------------- *)
NumCallers == 2          \* concurrent HTTP handler tasks
MaxOps == 2              \* API calls issued in one behaviour
MaxSpawn == 2            \* child processes spawned in one behaviour
max_restart_attempts == 1

Services == {"s1", "s2"}
Callers == 1..NumCallers
NoChild == 0
NoTask == 0

\* pid of the process a previous supervisor run recorded for a service
OldPid(s) == IF s = "s1" THEN 1 ELSE 2
OldPids == {OldPid(s) : s \in Services}
FirstFreshPid == Cardinality(OldPids) + 1

VARIABLES
    processes,     \* HashMap<String, ManagedProcess>
    wlock,         \* holder of the write side of the RwLock, or NoTask
    stateFile,     \* [readable, services]: the JSON state file
    alive,         \* OS process table: pids that have not exited
    nextPid,       \* next pid the OS hands out
    auto_restart,  \* ProcessManager.auto_restart
    known,         \* ids of the services passed to recover_processes
    pc, op, sid, child, loaded, res,   \* per caller
    service,       \* per caller: restart_count of the Service it passes to start
    removed,       \* per caller: its stop_service took an entry out of the map
    ops,           \* API calls issued so far
    rec,           \* the boot-time recover_processes task
    monitors,      \* bag of running monitor tasks
    logFile,       \* bytes of the log file of one registered service
    wpc,           \* position of the log watcher task of that service
    last_position, \* the watcher's local byte offset
    current_size,  \* the file size the watcher saw at its size check
    new_lines,     \* the lines the watcher has read and not yet published
    log_positions, \* LogManager.log_positions[service]
    published,     \* entries sent on the service's broadcast channel, in order
    reset,         \* a seek failure has made the watcher read from offset zero
    subs,          \* the receivers handed out on the service's broadcast channel
    database,      \* LogManager.database is Some
    store,         \* the rows of the logs table, in rowid order
    fileEntries,   \* per service: the lines of its log file, as parsed
    reply,         \* what the last call on the log store returned
    locks,         \* per RwLock: its writer, its readers, the waiters in order
    tasks          \* per task: the operation it runs and its next lock step

supVars == <<processes, wlock, stateFile, alive, nextPid, auto_restart, known,
             pc, op, sid, service, child, loaded, res, removed, ops, rec, monitors>>

tailVars == <<logFile, wpc, last_position, current_size, new_lines,
              log_positions, published, reset, subs>>

dbVars == <<database, store, fileEntries, reply>>

logVars == <<tailVars, dbVars>>

\* the four RwLocks and the tasks that take them (SpecLocks)
lockVars == <<locks, tasks>>

vars == <<supVars, logVars, lockVars>>

(* ------------------------- state persistence -------------------------- *)
ServiceState(s, p) == [service_id |-> s, pid |-> p]

RECURSIVE Retain(_, _)
\* services.retain(|x| x.service_id != s)
Retain(services, s) ==
    IF services = <<>> THEN <<>>
    ELSE IF Head(services).service_id = s THEN Retain(Tail(services), s)
         ELSE <<Head(services)>> \o Retain(Tail(services), s)

\* mutant: the retain is forgotten and the list is saved as loaded
remove_service_keeps_all(services, s) == services

\* body of remove_service between load_state and save_state
remove_service(services, s) == Retain(services, s)

\* mutant: the new state is put at the front of the list
add_or_update_service_prepends(services, st) ==
    <<st>> \o Retain(services, st.service_id)

\* body of add_or_update_service between load_state and save_state
add_or_update_service(services, st) ==
    Append(Retain(services, st.service_id), st)

\* load_state: Err on an unparsable file
load_state_ok == stateFile.readable

\* save_state rewrites the whole file
save_state(services) == [readable |-> TRUE, services |-> services]

\* the records a load_state would return now (none if it fails)
Persisted ==
    IF stateFile.readable
    THEN {stateFile.services[i] : i \in 1..Len(stateFile.services)}
    ELSE {}

PersistedIds == {st.service_id : st \in Persisted}

(* ----------------------------- live map ------------------------------- *)
ManagedProcess(c, st, n, p) ==
    [child |-> c, status |-> st, restart_count |-> n,
     service_restart_count |-> n, pid |-> p]

Insert(s, m) ==
    [x \in DOMAIN processes \cup {s} |-> IF x = s THEN m ELSE processes[x]]

Remove(s) == [x \in DOMAIN processes \ {s} |-> processes[x]]

Managed(s) == s \in DOMAIN processes

\* try_wait() on a Child handle: Some(status) once the process has exited
try_wait_exited(c) == c \notin alive

\* sysinfo process-table lookup by pid
process_exists(p) == p \in alive

(* ------------------------------ monitors ------------------------------ *)
Monitor(kind, s, p, at, ch, ld) ==
    [kind |-> kind, sid |-> s, pid |-> p, pc |-> at, child |-> ch, loaded |-> ld]

Spawn(m) == monitors (+) SetToBag({m})
Exit(m) == monitors (-) SetToBag({m})
Move(m, n) == (monitors (-) SetToBag({m})) (+) SetToBag({n})
Running == BagToSet(monitors)

Booted == rec.pc = "done"

\* what a boot can find: the state file left by the previous run, which of
\* its pids are still in the process table, the detected services, the config
BootStates ==
    {[file |-> [readable |-> TRUE, services |-> <<>>],
      alive |-> {}, known |-> Services, auto_restart |-> a] : a \in {TRUE, FALSE}}
    \cup {[file |-> [readable |-> FALSE, services |-> <<>>],
           alive |-> {}, known |-> Services, auto_restart |-> TRUE]}
    \cup {[file |-> [readable |-> TRUE, services |-> <<ServiceState("s1", OldPid("s1"))>>],
           alive |-> a, known |-> Services, auto_restart |-> TRUE] :
             a \in SUBSET {OldPid("s1")}}
    \cup {[file |-> [readable |-> TRUE,
                     services |-> <<ServiceState("s1", OldPid("s1")),
                                    ServiceState("s2", OldPid("s2"))>>],
           alive |-> a, known |-> k, auto_restart |-> TRUE] :
             a \in SUBSET OldPids, k \in {{"s1"}, Services}}

NumSubs == 2              \* receivers taken by stream_service_logs requests

\* no receiver yet: on is false. A receiver remembers the number of entries
\* sent before subscribe (since), the index in published of the entry its next
\* recv returns (next), the indexes it has been handed (received) and the
\* indexes it was moved past by RecvError::Lagged (missed)
NoReceiver ==
    [on |-> FALSE, since |-> 0, next |-> 1, received |-> <<>>, missed |-> {}]

\* log_manager.rs 52-79: register_service creates the log file empty, stores
\* offset 0 and starts the watcher with last_position 0
LogRegistered ==
    /\ logFile = <<>>
    /\ wpc = "sleep"
    /\ last_position = 0
    /\ current_size = 0
    /\ new_lines = <<>>
    /\ log_positions = 0
    /\ published = <<>>
    /\ reset = FALSE
    /\ subs = [u \in 1..NumSubs |-> NoReceiver]

NumTasks == 3             \* tasks that take the locks at the same time (SpecLocks)

Tasks == 1..NumTasks

\* ProcessManager.processes and LogManager.log_files, log_senders and
\* log_positions: one tokio RwLock each (process_manager.rs 14, log_manager.rs
\* 14-16)
Locks == {"processes", "log_files", "log_senders", "log_positions"}

\* RwLock::new: no lock has a writer, a reader or a waiter; no task has begun
\* an operation
LocksFree ==
    /\ locks = [l \in Locks |-> [writer |-> NoTask, readers |-> {}, queue |-> <<>>]]
    /\ tasks = [t \in Tasks |-> [op |-> "none", at |-> 1, waiting |-> FALSE]]

NoReply == [op |-> "none"]

\* log_manager.rs 30-49, database.rs 46-101: LogManager::new opens the
\* database; nothing has been written or asked yet
DatabaseOpened ==
    /\ database = TRUE
    /\ store = <<>>
    /\ fileEntries = [s \in Services |-> <<>>]
    /\ reply = NoReply

Init ==
    /\ processes = << >>
    /\ wlock = NoTask
    /\ \E b \in BootStates :
          /\ stateFile = b.file
          /\ alive = b.alive
          /\ known = b.known
          /\ auto_restart = b.auto_restart
    /\ nextPid = FirstFreshPid
    /\ pc = [c \in Callers |-> "idle"]
    /\ op = [c \in Callers |-> "none"]
    /\ sid = [c \in Callers |-> "s1"]
    /\ service = [c \in Callers |-> 0]
    /\ child = [c \in Callers |-> NoChild]
    /\ loaded = [c \in Callers |-> <<>>]
    /\ res = [c \in Callers |-> "none"]
    /\ removed = [c \in Callers |-> FALSE]
    /\ ops = 0
    /\ rec = [pc |-> "load", saved |-> <<>>, idx |-> 1, sys |-> {},
              loaded |-> <<>>, res |-> "none"]
    /\ monitors = EmptyBag
    /\ LogRegistered
    /\ DatabaseOpened
    /\ LocksFree

(* ------------------------- caller bookkeeping ------------------------- *)
\* the caller's position and locals after a step
Local(c, p, ch, ld, r) ==
    /\ pc' = [pc EXCEPT ![c] = p]
    /\ child' = [child EXCEPT ![c] = ch]
    /\ loaded' = [loaded EXCEPT ![c] = ld]
    /\ res' = [res EXCEPT ![c] = r]

\* an idle handler task receives a request for operation o on service s
\* (handler tasks are interchangeable: the lowest idle one takes the request)
Call(c, o, s) ==
    /\ pc[c] = "idle"
    /\ \A d \in Callers : d < c => pc[d] # "idle"
    /\ Booted
    /\ ops < MaxOps
    /\ op' = [op EXCEPT ![c] = o]
    /\ sid' = [sid EXCEPT ![c] = s]
    /\ service' = [service EXCEPT ![c] = 0]
    /\ removed' = [removed EXCEPT ![c] = o \in {"stop", "restart"} /\ Managed(s)]
    /\ ops' = ops + 1

\* the operation returns r to its caller
Return(c, r) == Local(c, "idle", NoChild, <<>>, r)

(* --------------------------- start_service ---------------------------- *)
\* process_manager.rs 206-212: the entry start_service builds: a fresh attempt
\* counter next to a clone of the Service the caller passed
start_entry(ch, n) ==
    [ManagedProcess(ch, "Running", 0, ch) EXCEPT !.service_restart_count = n]

StartOutcomes == {"empty_command", "no_working_dir", "spawn_error", "spawned"}

\* process_manager.rs 45-169: port reclaim, command/working-dir checks, spawn
StartSpawn(c, s, outcome, victim) ==
    /\ \/ Call(c, "start", s)
       \/ /\ pc[c] = "restart_start"
          /\ s = sid[c]
          /\ UNCHANGED <<op, sid, service, removed, ops>>
    /\ victim \in alive \cup {NoChild}
    /\ IF outcome = "spawned"
       THEN /\ nextPid < FirstFreshPid + MaxSpawn
            /\ alive' = (alive \ {victim}) \cup {nextPid}
            /\ nextPid' = nextPid + 1
            /\ Local(c, "start_settle", nextPid, <<>>, res[c])
       ELSE /\ alive' = alive \ {victim}
            /\ UNCHANGED nextPid
            /\ Return(c, "err")
    /\ UNCHANGED <<processes, wlock, stateFile, auto_restart, known, rec, monitors>>
    /\ UNCHANGED <<logVars, lockVars>>

\* mutant: the ServiceState is written before the entry is inserted
StartSettlePersistsFirst(c) ==
    /\ pc[c] = "start_settle"
    /\ IF try_wait_exited(child[c])
       THEN /\ Return(c, "err")
            /\ UNCHANGED <<processes, stateFile>>
       ELSE /\ wlock = NoTask
            /\ stateFile' =
                  IF load_state_ok
                  THEN save_state(add_or_update_service(
                           stateFile.services, ServiceState(sid[c], child[c])))
                  ELSE stateFile
            /\ processes' = Insert(sid[c],
                   start_entry(child[c], service[c]))
            /\ Local(c, "start_load", child[c], <<>>, res[c])
    /\ UNCHANGED <<wlock, alive, nextPid, auto_restart, known,
                   op, sid, service, removed, ops, rec, monitors>>
    /\ UNCHANGED <<logVars, lockVars>>

\* mutant: the entry is inserted before the settle probe
StartSettleRegistersFirst(c) ==
    /\ pc[c] = "start_settle"
    /\ wlock = NoTask
    /\ processes' = Insert(sid[c],
           start_entry(child[c], service[c]))
    /\ IF try_wait_exited(child[c])
       THEN Return(c, "err")
       ELSE Local(c, "start_load", child[c], <<>>, res[c])
    /\ UNCHANGED <<wlock, stateFile, alive, nextPid, auto_restart, known,
                   op, sid, service, removed, ops, rec, monitors>>
    /\ UNCHANGED <<logVars, lockVars>>

\* process_manager.rs 171-214: settle probe (a child that has exited fails the
\* start; Ok(None) and Err both go on), then insert into the live map
StartSettle(c) ==
    /\ pc[c] = "start_settle"
    /\ IF try_wait_exited(child[c])
       THEN /\ Return(c, "err")
            /\ UNCHANGED processes
       ELSE /\ wlock = NoTask
            /\ processes' = Insert(sid[c],
                   start_entry(child[c], service[c]))
            /\ Local(c, "start_load", child[c], <<>>, res[c])
    /\ UNCHANGED <<wlock, stateFile, alive, nextPid, auto_restart, known,
                   op, sid, service, removed, ops, rec, monitors>>
    /\ UNCHANGED <<logVars, lockVars>>

\* process_manager.rs 229-247: tokio::spawn(monitor_process), Ok(())
StartReturn(c) ==
    /\ monitors' = Spawn(Monitor("mon", sid[c], NoChild, "poll", NoChild, <<>>))
    /\ Return(c, "ok")

\* process_manager.rs 225 / state_persistence.rs 88: load_state
StartLoad(c) ==
    /\ pc[c] = "start_load"
    /\ IF load_state_ok
       THEN /\ Local(c, "start_save", child[c], stateFile.services, res[c])
            /\ UNCHANGED monitors
       ELSE StartReturn(c)
    /\ UNCHANGED <<processes, wlock, stateFile, alive, nextPid, auto_restart,
                   known, op, sid, service, removed, ops, rec>>
    /\ UNCHANGED <<logVars, lockVars>>

\* state_persistence.rs 91-96: retain, push, save_state
StartSave(c) ==
    /\ pc[c] = "start_save"
    /\ stateFile' = save_state(
           add_or_update_service(loaded[c], ServiceState(sid[c], child[c])))
    /\ StartReturn(c)
    /\ UNCHANGED <<processes, wlock, alive, nextPid, auto_restart, known,
                   op, sid, service, removed, ops, rec>>
    /\ UNCHANGED <<logVars, lockVars>>

(* ---------------------------- stop_service ---------------------------- *)
\* mutant: the error of remove_service is propagated with `?`
stop_result_propagates(removeOk) == IF removeOk THEN "ok" ELSE "err"

\* process_manager.rs 265-269: a failed remove_service is only logged
stop_result(removeOk) == "ok"

\* stop_service returns; inside restart_service (line 273, `?`) an Ok goes on
StopReturn(c, removeOk) ==
    IF op[c] = "restart" /\ stop_result(removeOk) = "ok"
    THEN Local(c, "restart_read", NoChild, <<>>, res[c])
    ELSE Return(c, stop_result(removeOk))

\* mutant: an entry without a handle has its process signalled by pid
StopRemoveSignalsPid(c, o, s, killOk) ==
    /\ o \in {"stop", "restart"}
    /\ Call(c, o, s)
    /\ wlock = NoTask
    /\ wlock' = c
    /\ processes' = Remove(s)
    /\ IF Managed(s) /\ processes[s].child # NoChild
       THEN IF killOk
            THEN /\ alive' = alive \ {processes[s].child}
                 /\ Local(c, "stop_load", NoChild, <<>>, res[c])
            ELSE /\ UNCHANGED alive
                 /\ Local(c, "stop_wait", processes[s].child, <<>>, res[c])
       ELSE /\ killOk
            /\ alive' = IF Managed(s) THEN alive \ {processes[s].pid} ELSE alive
            /\ Local(c, "stop_load", NoChild, <<>>, res[c])
    /\ UNCHANGED <<stateFile, nextPid, auto_restart, known, rec, monitors>>
    /\ UNCHANGED <<logVars, lockVars>>

\* process_manager.rs 253-260: write lock, remove, child.kill(), child.wait()
\* (wait returns at once after a kill that worked; after a failed kill it
\* blocks in StopWait until the child exits or the wait itself fails)
StopRemove(c, o, s, killOk) ==
    /\ o \in {"stop", "restart"}
    /\ Call(c, o, s)
    /\ wlock = NoTask
    /\ wlock' = c
    /\ processes' = Remove(s)
    /\ IF Managed(s) /\ processes[s].child # NoChild
       THEN IF killOk
            THEN /\ alive' = alive \ {processes[s].child}
                 /\ Local(c, "stop_load", NoChild, <<>>, res[c])
            ELSE /\ UNCHANGED alive
                 /\ Local(c, "stop_wait", processes[s].child, <<>>, res[c])
       ELSE /\ killOk
            /\ UNCHANGED alive
            /\ Local(c, "stop_load", NoChild, <<>>, res[c])
    /\ UNCHANGED <<stateFile, nextPid, auto_restart, known, rec, monitors>>
    /\ UNCHANGED <<logVars, lockVars>>

\* process_manager.rs 260: child.wait() returns once the child has exited,
\* or fails at once
StopWait(c, waitOk) ==
    /\ pc[c] = "stop_wait"
    /\ waitOk => child[c] \notin alive
    /\ Local(c, "stop_load", NoChild, <<>>, res[c])
    /\ UNCHANGED <<processes, wlock, stateFile, alive, nextPid, auto_restart,
                   known, op, sid, service, removed, ops, rec, monitors>>
    /\ UNCHANGED <<logVars, lockVars>>

\* process_manager.rs 265 / state_persistence.rs 80: load_state
StopLoad(c) ==
    /\ pc[c] = "stop_load"
    /\ IF load_state_ok
       THEN /\ Local(c, "stop_save", NoChild, stateFile.services, res[c])
            /\ UNCHANGED wlock
       ELSE /\ StopReturn(c, FALSE)
            /\ wlock' = NoTask
    /\ UNCHANGED <<processes, stateFile, alive, nextPid, auto_restart, known,
                   op, sid, service, removed, ops, rec, monitors>>
    /\ UNCHANGED <<logVars, lockVars>>

\* state_persistence.rs 81-82, process_manager.rs 269: save, unlock, Ok(())
StopSave(c) ==
    /\ pc[c] = "stop_save"
    /\ stateFile' = save_state(remove_service(loaded[c], sid[c]))
    /\ wlock' = NoTask
    /\ StopReturn(c, TRUE)
    /\ UNCHANGED <<processes, alive, nextPid, auto_restart, known,
                   op, sid, service, removed, ops, rec, monitors>>
    /\ UNCHANGED <<logVars, lockVars>>

(* --------------------------- restart_service -------------------------- *)
\* process_manager.rs 274-283: sleep, read lock, start only if still managed
RestartRead(c) ==
    /\ pc[c] = "restart_read"
    /\ wlock = NoTask
    /\ IF Managed(sid[c])
       THEN /\ Local(c, "restart_start", NoChild, <<>>, res[c])
            /\ service' = [service EXCEPT
                              ![c] = processes[sid[c]].service_restart_count]
       ELSE /\ Return(c, "ok")
            /\ UNCHANGED service
    /\ UNCHANGED <<processes, wlock, stateFile, alive, nextPid, auto_restart,
                   known, op, sid, removed, ops, rec, monitors>>
    /\ UNCHANGED <<logVars, lockVars>>

(* ------------------------- get_service_status ------------------------- *)
\* process_manager.rs 287-297, 310: read lock, lookup, liveness check by pid
StatusRead(c, s) ==
    /\ Call(c, "status", s)
    /\ wlock = NoTask
    /\ IF ~Managed(s)
       THEN Return(c, "None")
       ELSE IF processes[s].child = NoChild /\ ~process_exists(processes[s].pid)
            THEN Local(c, "status_write", NoChild, <<>>, res[c])
            ELSE Return(c, processes[s].status)
    /\ UNCHANGED <<processes, wlock, stateFile, alive, nextPid, auto_restart,
                   known, rec, monitors>>
    /\ UNCHANGED <<logVars, lockVars>>

\* mutant: the entry is left as it was (lines 299-302 missing)
StatusWriteKeepsStatus(c) ==
    /\ pc[c] = "status_write"
    /\ wlock = NoTask
    /\ wlock' = c
    /\ Local(c, "status_load", NoChild, <<>>, res[c])
    /\ UNCHANGED <<processes, stateFile, alive, nextPid, auto_restart, known,
                   op, sid, service, removed, ops, rec, monitors>>
    /\ UNCHANGED <<logVars, lockVars>>

\* process_manager.rs 298-302: write lock, mark Stopped if still present
StatusWrite(c) ==
    /\ pc[c] = "status_write"
    /\ wlock = NoTask
    /\ wlock' = c
    /\ processes' = IF Managed(sid[c])
                    THEN [processes EXCEPT ![sid[c]].status = "Stopped"]
                    ELSE processes
    /\ Local(c, "status_load", NoChild, <<>>, res[c])
    /\ UNCHANGED <<stateFile, alive, nextPid, auto_restart, known,
                   op, sid, service, removed, ops, rec, monitors>>
    /\ UNCHANGED <<logVars, lockVars>>

\* process_manager.rs 304 / state_persistence.rs 80: load_state
StatusLoad(c) ==
    /\ pc[c] = "status_load"
    /\ IF load_state_ok
       THEN /\ Local(c, "status_save", NoChild, stateFile.services, res[c])
            /\ UNCHANGED wlock
       ELSE /\ Return(c, "Stopped")
            /\ wlock' = NoTask
    /\ UNCHANGED <<processes, stateFile, alive, nextPid, auto_restart, known,
                   op, sid, service, removed, ops, rec, monitors>>
    /\ UNCHANGED <<logVars, lockVars>>

\* state_persistence.rs 81-82, process_manager.rs 305: save, Some(Stopped)
StatusSave(c) ==
    /\ pc[c] = "status_save"
    /\ stateFile' = save_state(remove_service(loaded[c], sid[c]))
    /\ wlock' = NoTask
    /\ Return(c, "Stopped")
    /\ UNCHANGED <<processes, alive, nextPid, auto_restart, known,
                   op, sid, service, removed, ops, rec, monitors>>
    /\ UNCHANGED <<logVars, lockVars>>

(* -------------------------- recover_processes ------------------------- *)
\* mutant: the status of the detected descriptor is kept (line 499 missing)
recovered_process_keeps_status(p) == ManagedProcess(NoChild, "Stopped", 0, p)

\* process_manager.rs 499-512: the handle-less entry of a recovered process
recovered_process(p) == ManagedProcess(NoChild, "Running", 0, p)

RecLocal(p, i, ld) == rec' = [rec EXCEPT !.pc = p, !.idx = i, !.loaded = ld]

\* process_manager.rs 468-485: load_state, early returns, process snapshot
RecoverLoad ==
    /\ rec.pc = "load"
    /\ IF ~load_state_ok
       THEN rec' = [rec EXCEPT !.pc = "done", !.res = "err"]
       ELSE IF stateFile.services = <<>>
            THEN rec' = [rec EXCEPT !.pc = "done", !.res = "ok"]
            ELSE rec' = [rec EXCEPT !.pc = "loop", !.res = "ok",
                                    !.saved = stateFile.services,
                                    !.sys = alive]
    /\ UNCHANGED <<processes, wlock, stateFile, alive, nextPid, auto_restart,
                   known, pc, op, sid, service, child, loaded, res, removed, ops, monitors>>
    /\ UNCHANGED <<logVars, lockVars>>

\* process_manager.rs 487-514, 545-557: one saved state, insert if alive+known
RecoverNext ==
    /\ rec.pc = "loop"
    /\ IF rec.idx > Len(rec.saved)
       THEN /\ RecLocal("done", rec.idx, <<>>)
            /\ UNCHANGED processes
       ELSE LET st == rec.saved[rec.idx] IN
            IF st.pid \in rec.sys /\ st.service_id \in known
            THEN /\ wlock = NoTask
                 /\ processes' = Insert(st.service_id, recovered_process(st.pid))
                 /\ RecLocal("add_load", rec.idx, <<>>)
            ELSE /\ RecLocal("rm_load", rec.idx, <<>>)
                 /\ UNCHANGED processes
    /\ UNCHANGED <<wlock, stateFile, alive, nextPid, auto_restart, known,
                   pc, op, sid, service, child, loaded, res, removed, ops, monitors>>
    /\ UNCHANGED <<logVars, lockVars>>

\* process_manager.rs 530-542: tokio::spawn(monitor_recovered_process)
RecoverSpawnMonitor(st) ==
    monitors' = Spawn(Monitor("rec", st.service_id, st.pid, "poll", NoChild, <<>>))

\* process_manager.rs 526 / state_persistence.rs 88: load_state
RecoverAddLoad ==
    /\ rec.pc = "add_load"
    /\ IF load_state_ok
       THEN /\ RecLocal("add_save", rec.idx, stateFile.services)
            /\ UNCHANGED monitors
       ELSE /\ RecLocal("loop", rec.idx + 1, <<>>)
            /\ RecoverSpawnMonitor(rec.saved[rec.idx])
    /\ UNCHANGED <<processes, wlock, stateFile, alive, nextPid, auto_restart,
                   known, pc, op, sid, service, child, loaded, res, removed, ops>>
    /\ UNCHANGED <<logVars, lockVars>>

\* state_persistence.rs 91-96, then process_manager.rs 530-544
RecoverAddSave ==
    /\ rec.pc = "add_save"
    /\ stateFile' = save_state(
           add_or_update_service(rec.loaded, rec.saved[rec.idx]))
    /\ RecoverSpawnMonitor(rec.saved[rec.idx])
    /\ RecLocal("loop", rec.idx + 1, <<>>)
    /\ UNCHANGED <<processes, wlock, alive, nextPid, auto_restart, known,
                   pc, op, sid, service, child, loaded, res, removed, ops>>
    /\ UNCHANGED <<logVars, lockVars>>

\* process_manager.rs 548, 553 / state_persistence.rs 80: load_state
RecoverRemoveLoad ==
    /\ rec.pc = "rm_load"
    /\ IF load_state_ok
       THEN RecLocal("rm_save", rec.idx, stateFile.services)
       ELSE RecLocal("loop", rec.idx + 1, <<>>)
    /\ UNCHANGED <<processes, wlock, stateFile, alive, nextPid, auto_restart,
                   known, pc, op, sid, service, child, loaded, res, removed, ops, monitors>>
    /\ UNCHANGED <<logVars, lockVars>>

\* state_persistence.rs 81-82
RecoverRemoveSave ==
    /\ rec.pc = "rm_save"
    /\ stateFile' = save_state(
           remove_service(rec.loaded, rec.saved[rec.idx].service_id))
    /\ RecLocal("loop", rec.idx + 1, <<>>)
    /\ UNCHANGED <<processes, wlock, alive, nextPid, auto_restart, known,
                   pc, op, sid, service, child, loaded, res, removed, ops, monitors>>
    /\ UNCHANGED <<logVars, lockVars>>

(* --------------------------- monitor_process -------------------------- *)
\* mutant: the comparison is <= instead of <
may_restart_off_by_one(m) ==
    auto_restart /\ m.restart_count <= max_restart_attempts

\* process_manager.rs 389: the auto-restart policy
may_restart(m) == auto_restart /\ m.restart_count < max_restart_attempts

\* process_manager.rs 370-462: one poll of the loop, under the write lock
\* (waitErr: try_wait itself fails, lines 454-457)
MonitorPoll(m, waitErr) ==
    /\ m \in Running /\ m.kind = "mon" /\ m.pc = "poll"
    /\ wlock = NoTask
    /\ IF ~Managed(m.sid)
       THEN /\ ~waitErr
            /\ monitors' = Exit(m)
            /\ UNCHANGED processes
       ELSE LET managed == processes[m.sid] IN
            IF managed.child = NoChild \/ waitErr
            THEN /\ monitors' = Exit(m)
                 /\ UNCHANGED processes
            ELSE /\ try_wait_exited(managed.child)
                 /\ IF may_restart(managed)
                    THEN /\ processes' = [processes EXCEPT ![m.sid] =
                               [managed EXCEPT
                                  !.child = NoChild, !.status = "Error",
                                  !.restart_count = @ + 1,
                                  !.service_restart_count = managed.restart_count + 1]]
                         /\ monitors' = Move(m, [m EXCEPT !.pc = "backoff"])
                    ELSE /\ processes' = [processes EXCEPT ![m.sid] =
                               [managed EXCEPT
                                  !.child = NoChild, !.status = "Error"]]
                         /\ monitors' = Exit(m)
    /\ UNCHANGED <<wlock, stateFile, alive, nextPid, auto_restart, known,
                   pc, op, sid, service, child, loaded, res, removed, ops, rec>>
    /\ UNCHANGED <<logVars, lockVars>>

RespawnOutcomes == {"open_failed", "empty_command", "spawn_error", "spawned"}

\* process_manager.rs 398-430, 442-445: backoff, reopen log, cmd.spawn()
MonitorRespawn(m, outcome) ==
    /\ m \in Running /\ m.kind = "mon" /\ m.pc = "backoff"
    /\ IF outcome = "spawned"
       THEN /\ nextPid < FirstFreshPid + MaxSpawn
            /\ alive' = alive \cup {nextPid}
            /\ nextPid' = nextPid + 1
            /\ monitors' = Move(m, [m EXCEPT !.pc = "install", !.child = nextPid])
       ELSE /\ monitors' = Exit(m)
            /\ UNCHANGED <<alive, nextPid>>
    /\ UNCHANGED <<processes, wlock, stateFile, auto_restart, known,
                   pc, op, sid, service, child, loaded, res, removed, ops, rec>>
    /\ UNCHANGED <<logVars, lockVars>>

\* process_manager.rs 431-441: write lock, install the new child if managed
MonitorInstall(m) ==
    /\ m \in Running /\ m.kind = "mon" /\ m.pc = "install"
    /\ wlock = NoTask
    /\ processes' = IF Managed(m.sid)
                    THEN [processes EXCEPT ![m.sid] =
                            [@ EXCEPT !.child = m.child, !.pid = m.child,
                                      !.status = "Running"]]
                    ELSE processes
    /\ monitors' = Move(m, [m EXCEPT !.pc = "poll", !.child = NoChild])
    /\ UNCHANGED <<wlock, stateFile, alive, nextPid, auto_restart, known,
                   pc, op, sid, service, child, loaded, res, removed, ops, rec>>
    /\ UNCHANGED <<logVars, lockVars>>

(* ---------------------- monitor_recovered_process --------------------- *)
\* mutant: the entry is not marked (lines 583-584 missing)
RecoveredPollKeepsStatus(m) ==
    /\ m \in Running /\ m.kind = "rec" /\ m.pc = "poll"
    /\ wlock = NoTask
    /\ IF ~Managed(m.sid)
       THEN monitors' = Exit(m)
       ELSE /\ ~process_exists(m.pid)
            /\ monitors' = Move(m, [m EXCEPT !.pc = "load"])
    /\ UNCHANGED <<processes, wlock, stateFile, alive, nextPid, auto_restart, known,
                   pc, op, sid, service, child, loaded, res, removed, ops, rec>>
    /\ UNCHANGED <<logVars, lockVars>>

\* process_manager.rs 568-585: one poll, liveness of the recovered pid
RecoveredPoll(m) ==
    /\ m \in Running /\ m.kind = "rec" /\ m.pc = "poll"
    /\ wlock = NoTask
    /\ IF ~Managed(m.sid)
       THEN /\ monitors' = Exit(m)
            /\ UNCHANGED processes
       ELSE /\ ~process_exists(m.pid)
            /\ processes' = [processes EXCEPT ![m.sid].status = "Stopped"]
            /\ monitors' = Move(m, [m EXCEPT !.pc = "load"])
    /\ UNCHANGED <<wlock, stateFile, alive, nextPid, auto_restart, known,
                   pc, op, sid, service, child, loaded, res, removed, ops, rec>>
    /\ UNCHANGED <<logVars, lockVars>>

\* process_manager.rs 588 / state_persistence.rs 80: load_state
RecoveredLoad(m) ==
    /\ m \in Running /\ m.kind = "rec" /\ m.pc = "load"
    /\ IF load_state_ok
       THEN monitors' = Move(m, [m EXCEPT !.pc = "save",
                                          !.loaded = stateFile.services])
       ELSE monitors' = Exit(m)
    /\ UNCHANGED <<processes, wlock, stateFile, alive, nextPid, auto_restart,
                   known, pc, op, sid, service, child, loaded, res, removed, ops, rec>>
    /\ UNCHANGED <<logVars, lockVars>>

\* state_persistence.rs 81-82, process_manager.rs 589: save, break
RecoveredSave(m) ==
    /\ m \in Running /\ m.kind = "rec" /\ m.pc = "save"
    /\ stateFile' = save_state(remove_service(m.loaded, m.sid))
    /\ monitors' = Exit(m)
    /\ UNCHANGED <<processes, wlock, alive, nextPid, auto_restart, known,
                   pc, op, sid, service, child, loaded, res, removed, ops, rec>>
    /\ UNCHANGED <<logVars, lockVars>>

(* ----------------------------- environment ---------------------------- *)
\* a process exits on its own (crash or normal end)
ProcessExit(p) ==
    /\ p \in alive
    /\ alive' = alive \ {p}
    /\ UNCHANGED <<processes, wlock, stateFile, nextPid, auto_restart, known,
                   pc, op, sid, service, child, loaded, res, removed, ops, rec, monitors>>
    /\ UNCHANGED <<logVars, lockVars>>

(* ---------------------------- specification --------------------------- *)
Pids == OldPids \cup (FirstFreshPid .. (FirstFreshPid + MaxSpawn - 1))

Next ==
    \/ \E c \in Callers, s \in Services, o \in StartOutcomes, v \in Pids \cup {NoChild} :
          StartSpawn(c, s, o, v)
    \/ \E c \in Callers : StartSettle(c)
    \/ \E c \in Callers : StartLoad(c)
    \/ \E c \in Callers : StartSave(c)
    \/ \E c \in Callers, o \in {"stop", "restart"}, s \in Services, k \in BOOLEAN :
          StopRemove(c, o, s, k)
    \/ \E c \in Callers, w \in BOOLEAN : StopWait(c, w)
    \/ \E c \in Callers : StopLoad(c)
    \/ \E c \in Callers : StopSave(c)
    \/ \E c \in Callers : RestartRead(c)
    \/ \E c \in Callers, s \in Services : StatusRead(c, s)
    \/ \E c \in Callers : StatusWrite(c)
    \/ \E c \in Callers : StatusLoad(c)
    \/ \E c \in Callers : StatusSave(c)
    \/ RecoverLoad
    \/ RecoverNext
    \/ RecoverAddLoad
    \/ RecoverAddSave
    \/ RecoverRemoveLoad
    \/ RecoverRemoveSave
    \/ \E m \in Running, e \in BOOLEAN : MonitorPoll(m, e)
    \/ \E m \in Running, o \in RespawnOutcomes : MonitorRespawn(m, o)
    \/ \E m \in Running : MonitorInstall(m)
    \/ \E m \in Running : RecoveredPoll(m)
    \/ \E m \in Running : RecoveredLoad(m)
    \/ \E m \in Running : RecoveredSave(m)
    \/ \E p \in Pids : ProcessExit(p)

Spec == Init /\ [][Next]_vars

\* Scheduling: the tokio runtime runs every ready task, file I/O completes, a
\* wait on a child that could not be killed returns, and the RwLock is handed
\* to every waiter in turn.
Fairness ==
    /\ WF_vars(\E c \in Callers, w \in BOOLEAN : StopWait(c, w))
    /\ WF_vars(\E c \in Callers : StopLoad(c))
    /\ WF_vars(\E c \in Callers : StopSave(c))
    /\ WF_vars(\E c \in Callers : StatusLoad(c))
    /\ WF_vars(\E c \in Callers : StatusSave(c))
    /\ SF_vars(\E m \in Running : RecoveredPoll(m))
    /\ WF_vars(\E m \in Running : RecoveredLoad(m))
    /\ WF_vars(\E m \in Running : RecoveredSave(m))

\* boots that find one saved process (alive or not)
LiveInit == Init /\ Len(stateFile.services) = 1

SpecLive == LiveInit /\ [][Next]_vars /\ Fairness

(* ------------------ recover_processes run twice in a row --------------- *)
\* the state files a previous run can leave: at most one record per service
SavedFiles ==
    {<<>>}
    \cup {<<ServiceState(s, p)>> : s \in Services, p \in OldPids}
    \cup {f \in {<<ServiceState(s, p), ServiceState(u, q)>> :
                     s \in Services, u \in Services, p \in OldPids, q \in OldPids} :
             f[1].service_id # f[2].service_id}

RecoverInit ==
    /\ processes = << >>
    /\ wlock = NoTask
    /\ \/ stateFile = [readable |-> FALSE, services |-> <<>>]
       \/ \E f \in SavedFiles : stateFile = [readable |-> TRUE, services |-> f]
    /\ alive \in SUBSET OldPids
    /\ known \in SUBSET Services
    /\ auto_restart = TRUE
    /\ nextPid = FirstFreshPid
    /\ pc = [c \in Callers |-> "idle"]
    /\ op = [c \in Callers |-> "none"]
    /\ sid = [c \in Callers |-> "s1"]
    /\ service = [c \in Callers |-> 0]
    /\ child = [c \in Callers |-> NoChild]
    /\ loaded = [c \in Callers |-> <<>>]
    /\ res = [c \in Callers |-> "none"]
    /\ removed = [c \in Callers |-> FALSE]
    /\ ops = 0
    /\ rec = [pc |-> "load", saved |-> <<>>, idx |-> 1, sys |-> {},
              loaded |-> <<>>, res |-> "none", run |-> 1,
              first |-> [processes |-> << >>, stateFile |-> stateFile]]
    /\ monitors = EmptyBag
    /\ LogRegistered
    /\ DatabaseOpened
    /\ LocksFree

\* recover_processes is called again as soon as it has returned
\* (rec.first keeps the live map and the state file the first run left)
RecoverAgain ==
    /\ rec.pc = "done"
    /\ rec.run = 1
    /\ rec' = [pc |-> "load", saved |-> <<>>, idx |-> 1, sys |-> {},
               loaded |-> <<>>, res |-> "none", run |-> 2,
               first |-> [processes |-> processes, stateFile |-> stateFile]]
    /\ UNCHANGED <<processes, wlock, stateFile, alive, nextPid, auto_restart,
                   known, pc, op, sid, service, child, loaded, res, removed, ops, monitors>>
    /\ UNCHANGED <<logVars, lockVars>>

NextRecover ==
    \/ RecoverLoad
    \/ RecoverNext
    \/ RecoverAddLoad
    \/ RecoverAddSave
    \/ RecoverRemoveLoad
    \/ RecoverRemoveSave
    \/ RecoverAgain

SpecRecover == RecoverInit /\ [][NextRecover]_vars

(* ----------------------------- log watcher ---------------------------- *)
MaxLogLen == 4            \* bytes the child writes to the log file

Newline == "nl"
Bytes == {"x", Newline}

\* the child process appends one byte to its log file (stdout/stderr are the
\* file opened in append mode; the file is never locked)
LogAppend(b) ==
    /\ Len(logFile) < MaxLogLen
    /\ logFile' = Append(logFile, b)
    /\ UNCHANGED <<wpc, last_position, current_size, new_lines,
                   log_positions, published, reset, subs>>
    /\ UNCHANGED <<supVars, dbVars, lockVars>>

RECURSIVE lines(_, _, _)
\* BufReader::lines from the position after the seek to the end of file F:
\* st is the first byte of the line being read, i the next byte; a last line
\* without a newline is yielded as it is
lines(F, st, i) ==
    IF i > Len(F)
    THEN IF st <= Len(F)
         THEN <<[from |-> st, to |-> Len(F), message |-> SubSeq(F, st, Len(F))]>>
         ELSE <<>>
    ELSE IF F[i] = Newline
         THEN <<[from |-> st, to |-> i - 1, message |-> SubSeq(F, st, i - 1)]>>
                 \o lines(F, i + 1, i + 1)
         ELSE lines(F, st, i + 1)

\* line.trim().is_empty()
is_blank(message) == message = <<>>

RECURSIVE non_blank(_)
\* log_manager.rs 120-126: the lines kept in new_lines
non_blank(ls) ==
    IF ls = <<>> THEN <<>>
    ELSE IF is_blank(Head(ls).message) THEN non_blank(Tail(ls))
         ELSE <<Head(ls)>> \o non_blank(Tail(ls))

\* mutant: the watcher always reads from the start of the file
seek_from_start(seekOk) == 0

\* log_manager.rs 109-115: the offset the read starts at
seek_target(seekOk) == IF seekOk THEN last_position ELSE 0

\* log_manager.rs 82-107: sleep, open, metadata().len(), compare
WatcherSize ==
    /\ wpc = "sleep"
    /\ current_size' = Len(logFile)
    /\ wpc' = IF Len(logFile) > last_position THEN "read" ELSE "sleep"
    /\ UNCHANGED <<logFile, last_position, new_lines, log_positions,
                   published, reset, subs>>
    /\ UNCHANGED <<supVars, dbVars, lockVars>>

\* log_manager.rs 109-129: seek, read every line to the end of the file as it
\* is now, last_position = current_size
WatcherRead(seekOk, seekStartOk) ==
    /\ wpc = "read"
    /\ IF ~seekOk /\ ~seekStartOk
       THEN /\ wpc' = "sleep"
            /\ UNCHANGED <<last_position, new_lines, reset>>
       ELSE /\ new_lines' = non_blank(lines(logFile, seek_target(seekOk) + 1,
                                            seek_target(seekOk) + 1))
            /\ last_position' = current_size
            /\ reset' = ~seekOk
            /\ wpc' = "publish"
    /\ UNCHANGED <<logFile, current_size, log_positions, published, subs>>
    /\ UNCHANGED <<supVars, dbVars, lockVars>>

(* --------------------------- broadcast channel ------------------------ *)
Capacity == 2             \* entries the channel holds: broadcast::channel(1000)
Subs == 1..NumSubs

\* the oldest entry the channel still holds: a send overwrites the slot of the
\* entry sent Capacity sends earlier
oldest_retained ==
    IF Len(published) > Capacity THEN Len(published) - Capacity + 1 ELSE 1

\* mutant: a new receiver starts at the oldest entry the channel holds
subscribe_at_oldest == oldest_retained

\* Sender::subscribe: the new receiver starts at the tail of the channel
subscribe_position == Len(published) + 1

\* mutant: a receiver that lagged resumes at the tail of the channel
lag_resume_at_tail == Len(published) + 1

\* Receiver::recv returning RecvError::Lagged moves the receiver to the oldest
\* entry the channel still holds
lag_resume_position == oldest_retained

\* mutant: a send waits until every receiver has room for the new entries
WatcherPublishWaits ==
    /\ wpc = "publish"
    /\ \A u \in Subs : subs[u].on =>
          Len(published) + Len(new_lines) - subs[u].next < Capacity
    /\ log_positions' = last_position
    /\ published' = published \o new_lines
    /\ new_lines' = <<>>
    /\ reset' = FALSE
    /\ wpc' = "sleep"
    /\ UNCHANGED <<logFile, last_position, current_size, subs>>
    /\ UNCHANGED <<supVars, dbVars, lockVars>>

\* log_manager.rs 130-155: store the offset, send every new line; the result
\* of send is dropped and send never waits for a receiver
WatcherPublish ==
    /\ wpc = "publish"
    /\ log_positions' = last_position
    /\ published' = published \o new_lines
    /\ new_lines' = <<>>
    /\ reset' = FALSE
    /\ wpc' = "sleep"
    /\ UNCHANGED <<logFile, last_position, current_size, subs>>
    /\ UNCHANGED <<supVars, dbVars, lockVars>>

\* server.rs 431-436, log_manager.rs 196-199: a stream request takes a receiver
Subscribe(u) ==
    /\ ~subs[u].on
    /\ subs' = [subs EXCEPT ![u] = [on |-> TRUE,
                                    since |-> Len(published),
                                    next |-> subscribe_position,
                                    received |-> <<>>,
                                    missed |-> {}]]
    /\ UNCHANGED <<logFile, wpc, last_position, current_size, new_lines,
                   log_positions, published, reset>>
    /\ UNCHANGED <<supVars, dbVars, lockVars>>

\* server.rs 438-455: one receiver.recv().await of the stream. It waits while
\* nothing is unread; Ok(entry) is sent to the client; Err(Lagged) moves the
\* receiver forward, the stream sleeps and calls recv again
Recv(u) ==
    /\ subs[u].on
    /\ subs[u].next <= Len(published)
    /\ IF subs[u].next < oldest_retained
       THEN subs' = [subs EXCEPT
                       ![u].next = lag_resume_position,
                       ![u].missed = @ \cup (subs[u].next .. lag_resume_position - 1)]
       ELSE subs' = [subs EXCEPT
                       ![u].received = Append(@, subs[u].next),
                       ![u].next = @ + 1]
    /\ UNCHANGED <<logFile, wpc, last_position, current_size, new_lines,
                   log_positions, published, reset>>
    /\ UNCHANGED <<supVars, dbVars, lockVars>>

LogNext ==
    \/ \E b \in Bytes : LogAppend(b)
    \/ WatcherSize
    \/ \E k \in BOOLEAN, k0 \in BOOLEAN : WatcherRead(k, k0)
    \/ WatcherPublish

\* the supervisor idle after a boot with an empty state file
LogInit ==
    /\ Init
    /\ stateFile = [readable |-> TRUE, services |-> <<>>]
    /\ auto_restart

SpecLog == LogInit /\ [][LogNext]_vars

\* the watcher together with the clients streaming the service's log
HubNext ==
    \/ LogNext
    \/ \E u \in Subs : Subscribe(u)
    \/ \E u \in Subs : Recv(u)

SpecHub == LogInit /\ [][HubNext]_vars

(* ----------------------------- log database --------------------------- *)
MaxRows == 3              \* rows the logs table holds (SpecStore)

None == [some |-> FALSE]
Some(v) == [some |-> TRUE, v |-> v]

Min(a, b) == IF a < b THEN a ELSE b

\* the characters of a stored timestamp, in the order of their codes: SQLite
\* compares TEXT values byte by byte
Chars == <<"+", ".", "0", "1", "2", "3", "4", "5", "6", "7", "8", "9", "Z">>
code(c) == CHOOSE i \in 1..Len(Chars) : Chars[i] = c
Digit(n) == Chars[n + 3]
val(c) == code(c) - 3

\* a DateTime<Utc> is a number of hundredths of a second below ten seconds.
\* SecondsFormat::AutoSi writes no fraction when it is zero and otherwise the
\* shortest of the fixed fraction widths that holds it (here one or two digits)
fraction(f) ==
    IF f = 0 THEN <<>>
    ELSE IF f % 10 = 0 THEN <<".", Digit(f \div 10)>>
         ELSE <<".", Digit(f \div 10), Digit(f % 10)>>

\* mutant: the UTC offset is written as Z
to_rfc3339_z(t) == <<Digit(t \div 100)>> \o fraction(t % 100) \o <<"Z">>

\* DateTime<Utc>::to_rfc3339: the seconds in a fixed width, the fraction, and
\* the offset +00:00 (its first character stands for it)
to_rfc3339(t) == <<Digit(t \div 100)>> \o fraction(t % 100) \o <<"+">>

\* database.rs 159-163: DateTime::parse_from_rfc3339 of a stored timestamp
parse_from_rfc3339(x) ==
    100 * val(x[1])
    + (IF Len(x) = 2 THEN 0
       ELSE IF Len(x) = 4 THEN 10 * val(x[3])
            ELSE 10 * val(x[3]) + val(x[4]))

RECURSIVE text_less(_, _)
\* a < b on TEXT values (BINARY collation)
text_less(a, b) ==
    IF b = <<>> THEN FALSE
    ELSE IF a = <<>> THEN TRUE
         ELSE IF a[1] = b[1] THEN text_less(Tail(a), Tail(b))
              ELSE code(a[1]) < code(b[1])

\* str::to_lowercase on the level words a caller sends
to_lowercase(w) ==
    CASE w = "ALL" -> "all"
      [] w = "All" -> "all"
      [] w = "ERROR" -> "error"
      [] w = "Error" -> "error"
      [] OTHER -> w

lower_char(c) == IF c = "A" THEN "a" ELSE IF c = "B" THEN "b" ELSE c

\* str::to_lowercase on a message or a search string
lower_text(m) == [i \in 1..Len(m) |-> lower_char(m[i])]

\* str::contains
contains(m, x) ==
    \E i \in 0..(Len(m) - Len(x)) : SubSeq(m, i + 1, i + Len(x)) = x

\* message LIKE '%search%': LIKE ignores the case of ASCII letters
like(m, x) == contains(lower_text(m), lower_text(x))

LogEntry(t, s, l, m) ==
    [timestamp |-> t, service_id |-> s, level |-> l, message |-> m]

\* database.rs 110-117, 142-147: the row an entry is stored as
row_of(e) == [e EXCEPT !.timestamp = to_rfc3339(@)]

\* database.rs 157-169
row_to_log_entry(r) == [r EXCEPT !.timestamp = parse_from_rfc3339(@)]

\* mutant: only the lower-case word switches the level condition off
level_is_all_exact(w) == w = "all"

\* database.rs 187, log_manager.rs 340
level_is_all(w) == to_lowercase(w) = "all"

\* database.rs 177-215: the WHERE clause, its conditions joined with AND
row_matches(r, f) ==
    /\ f.service_id.some => r.service_id = f.service_id.v
    /\ (f.level.some /\ ~level_is_all(f.level.v)) =>
          r.level = to_lowercase(f.level.v)
    /\ f.from.some => ~text_less(r.timestamp, to_rfc3339(f.from.v))
    /\ f.to.some => ~text_less(to_rfc3339(f.to.v), r.timestamp)
    /\ (f.search.some /\ f.search.v # <<>>) => like(r.message, f.search.v)

Matching(f) == {i \in 1..Len(store) : row_matches(store[i], f)}

\* ORDER BY timestamp DESC: every order of the matching rows in which no row
\* comes before a row with a greater timestamp (rows with equal timestamps
\* come in an order SQLite does not fix)
NewestFirst(f) ==
    {o \in [1..Cardinality(Matching(f)) -> Matching(f)] :
        /\ \A i \in DOMAIN o, j \in DOMAIN o : i # j => o[i] # o[j]
        /\ \A i \in DOMAIN o, j \in DOMAIN o :
              i < j => ~text_less(store[o[i]].timestamp, store[o[j]].timestamp)}

\* mutant: OFFSET is not applied
page_without_offset(o, limit, offset) == SubSeq(o, 1, Min(Len(o), limit))

\* LIMIT ? OFFSET ?
page(o, limit, offset) == SubSeq(o, offset + 1, Min(Len(o), offset + limit))

\* entries.reverse()
reverse(q) == [i \in 1..Len(q) |-> q[Len(q) + 1 - i]]

\* database.rs 217-246: the rowids get_logs returns for the order o, oldest first
selected(f, o) == reverse(page(o, f.limit, f.offset))

EntriesAt(rows) == [i \in 1..Len(rows) |-> row_to_log_entry(store[rows[i]])]

LogFilters(s, l, fr, to, x, lim, off) ==
    [service_id |-> s, level |-> l, from |-> fr, to |-> to, search |-> x,
     limit |-> lim, offset |-> off]

\* database.rs 171-250: LogDatabase::get_logs
GetLogs(f) ==
    /\ database
    /\ \E o \in NewestFirst(f) :
          reply' = [op |-> "get_logs", filters |-> f, ok |-> TRUE,
                    rows |-> selected(f, o),
                    logs |-> EntriesAt(selected(f, o))]
    /\ UNCHANGED <<database, store, fileEntries>>
    /\ UNCHANGED <<supVars, tailVars, lockVars>>

\* log_manager.rs 146-154, database.rs 104-124: the watcher stores a line it
\* has read
InsertLog(e) ==
    /\ database
    /\ Len(store) < MaxRows
    /\ store' = Append(store, row_of(e))
    /\ reply' = [op |-> "insert_log", ok |-> TRUE]
    /\ UNCHANGED <<database, fileEntries>>
    /\ UNCHANGED <<supVars, tailVars, lockVars>>

\* database.rs 126-155: one INSERT per entry on the open connection, each
\* committed as it runs; failAt is the entry whose execute fails (0: none does)
InsertLogsBatch(batch, failAt) ==
    /\ database
    /\ Len(store) + Len(batch) <= MaxRows
    /\ failAt <= Len(batch)
    /\ store' = store \o [i \in 1..(IF failAt = 0 THEN Len(batch) ELSE failAt - 1)
                             |-> row_of(batch[i])]
    /\ reply' = [op |-> "insert_logs_batch", ok |-> failAt = 0]
    /\ UNCHANGED <<database, fileEntries>>
    /\ UNCHANGED <<supVars, tailVars, lockVars>>

DayLength == 100          \* a day of the retention period, in time units

RECURSIVE delete_where(_, _)
\* DELETE FROM logs WHERE timestamp < ?
delete_where(rows, cutoff_str) ==
    IF rows = <<>> THEN <<>>
    ELSE IF text_less(Head(rows).timestamp, cutoff_str)
         THEN delete_where(Tail(rows), cutoff_str)
         ELSE <<Head(rows)>> \o delete_where(Tail(rows), cutoff_str)

\* database.rs 259-275: LogDatabase::cleanup_old_logs at the time now
CleanupOldLogs(now, days) ==
    /\ database
    /\ store' = delete_where(store, to_rfc3339(now - days * DayLength))
    /\ reply' = [op |-> "cleanup_old_logs", ok |-> TRUE,
                 cutoff |-> now - days * DayLength,
                 deleted |-> Len(store) - Len(store')]
    /\ UNCHANGED <<database, fileEntries>>
    /\ UNCHANGED <<supVars, tailVars, lockVars>>

Times == {100, 150, 155}
Levels == {"info", "error", "warn"}
LevelWords == {"error", "ERROR", "ALL"}
Nows == {250, 255}
Days == {0, 1}

\* the entries of one service with one message
StoreEntries == {LogEntry(t, "s1", l, <<"a">>) : t \in Times, l \in Levels}

\* the entries of the batches a migration hands to insert_logs_batch
BatchEntries == {LogEntry(100, "s1", "info", <<"a">>),
                 LogEntry(150, "s1", "error", <<"a">>)}

Batches == {<<>>} \cup {<<e>> : e \in BatchEntries}
              \cup {<<e, g>> : e \in BatchEntries, g \in BatchEntries}

StoreFilters ==
    {LogFilters(None, l, None, None, None, lim, off) :
        l \in {None} \cup {Some(w) : w \in LevelWords},
        lim \in 1..MaxRows, off \in 0..1}

StoreNext ==
    \/ \E e \in StoreEntries : InsertLog(e)
    \/ \E b \in Batches, n \in 0..2 : InsertLogsBatch(b, n)
    \/ \E f \in StoreFilters : GetLogs(f)
    \/ \E now \in Nows, d \in Days : CleanupOldLogs(now, d)

SpecStore == LogInit /\ [][StoreNext]_vars

(* ------------------------ filtered query, both paths ------------------ *)
MaxLines == 2             \* lines the services have logged (SpecQuery)

\* the lines of the service that is queried, and one line of another service
QueryEntries ==
    {LogEntry(t, "s1", l, m) : t \in {100, 150}, l \in {"info", "error"},
                               m \in {<<"a">>, <<"B">>}}
    \cup {LogEntry(150, "s2", "error", <<"B">>)}

\* a service writes a line to its log file; the watcher reads it, parses it
\* and, with a database, stores it (log_manager.rs 117-154)
LogLine(e) ==
    /\ Len(fileEntries["s1"]) + Len(fileEntries["s2"]) < MaxLines
    /\ fileEntries' = [fileEntries EXCEPT ![e.service_id] = Append(@, e)]
    /\ store' = IF database THEN Append(store, row_of(e)) ELSE store
    /\ reply' = NoReply
    /\ UNCHANGED database
    /\ UNCHANGED <<supVars, tailVars, lockVars>>

Query(l, fr, to, x, or, lim) ==
    [level_filter |-> l, from |-> fr, to |-> to, search |-> x,
     use_or_operator |-> or, limit |-> lim]

\* log_manager.rs 335-357: the vector matches of one entry, one element per
\* active filter
matches(e, q) ==
    (IF q.level_filter.some /\ ~level_is_all(q.level_filter.v)
     THEN <<to_lowercase(e.level) = to_lowercase(q.level_filter.v)>> ELSE <<>>)
    \o (IF q.from.some THEN <<e.timestamp >= q.from.v>> ELSE <<>>)
    \o (IF q.to.some THEN <<e.timestamp <= q.to.v>> ELSE <<>>)
    \o (IF q.search.some /\ q.search.v # <<>>
        THEN <<contains(lower_text(e.message), lower_text(q.search.v))>>
        ELSE <<>>)

\* mutant: any() and all() on the vector, also when it is empty
included_unless_empty_or(e, q) ==
    IF q.use_or_operator
    THEN \E i \in DOMAIN matches(e, q) : matches(e, q)[i]
    ELSE \A i \in DOMAIN matches(e, q) : matches(e, q)[i]

\* log_manager.rs 359-366
included(e, q) ==
    IF matches(e, q) = <<>> THEN TRUE
    ELSE IF q.use_or_operator
         THEN \E i \in DOMAIN matches(e, q) : matches(e, q)[i]
         ELSE \A i \in DOMAIN matches(e, q) : matches(e, q)[i]

RECURSIVE filter_from(_, _, _)
\* the positions from i on of the lines of s that the filter keeps
filter_from(s, q, i) ==
    IF i > Len(fileEntries[s]) THEN <<>>
    ELSE IF included(fileEntries[s][i], q)
         THEN <<i>> \o filter_from(s, q, i + 1)
         ELSE filter_from(s, q, i + 1)

\* log_manager.rs 335-367: .filter(..).take(limit)
file_lines(s, q) ==
    SubSeq(filter_from(s, q, 1), 1, Min(Len(filter_from(s, q, 1)), q.limit))

FileEntriesAt(s, ls) == [i \in 1..Len(ls) |-> fileEntries[s][ls[i]]]

\* log_manager.rs 283-291: the filters handed to the database
filters_of(s, q) ==
    LogFilters(Some(s), q.level_filter, q.from, q.to, q.search, q.limit, 0)

\* log_manager.rs 271-381: LogManager::get_filtered_logs; fails says that the
\* database call returns an error
GetFilteredLogs(s, q, fails) ==
    /\ fails => database
    /\ IF database
       THEN IF fails
            THEN reply' = [op |-> "get_filtered_logs", service_id |-> s,
                           query |-> q, ok |-> FALSE]
            ELSE \E o \in NewestFirst(filters_of(s, q)) :
                    reply' = [op |-> "get_filtered_logs", service_id |-> s,
                              query |-> q, ok |-> TRUE, path |-> "database",
                              rows |-> selected(filters_of(s, q), o),
                              logs |-> EntriesAt(selected(filters_of(s, q), o))]
       ELSE reply' = [op |-> "get_filtered_logs", service_id |-> s,
                      query |-> q, ok |-> TRUE, path |-> "file",
                      rows |-> file_lines(s, q),
                      logs |-> FileEntriesAt(s, file_lines(s, q))]
    /\ UNCHANGED <<database, store, fileEntries>>
    /\ UNCHANGED <<supVars, tailVars, lockVars>>

\* the time windows asked for: none, from a time on, up to a time
Windows == {[from |-> None, to |-> None], [from |-> Some(150), to |-> None],
            [from |-> None, to |-> Some(100)]}

Queries ==
    {Query(l, w.from, w.to, x, or, lim) :
        l \in {Some("ALL"), Some("error")}, w \in Windows,
        x \in {Some(<<>>), Some(<<"b">>)},
        or \in BOOLEAN, lim \in {1, MaxLines}}
    \cup {Query(None, None, None, None, or, lim) :
             or \in BOOLEAN, lim \in {1, MaxLines}}

QueryNext ==
    \/ \E e \in QueryEntries : LogLine(e)
    \/ \E q \in Queries, fails \in BOOLEAN : GetFilteredLogs("s1", q, fails)

\* the supervisor idle, the services registered, the database opened or not
QueryInit ==
    /\ processes = << >>
    /\ wlock = NoTask
    /\ stateFile = [readable |-> TRUE, services |-> <<>>]
    /\ alive = {}
    /\ known = Services
    /\ auto_restart = TRUE
    /\ nextPid = FirstFreshPid
    /\ pc = [c \in Callers |-> "idle"]
    /\ op = [c \in Callers |-> "none"]
    /\ sid = [c \in Callers |-> "s1"]
    /\ service = [c \in Callers |-> 0]
    /\ child = [c \in Callers |-> NoChild]
    /\ loaded = [c \in Callers |-> <<>>]
    /\ res = [c \in Callers |-> "none"]
    /\ removed = [c \in Callers |-> FALSE]
    /\ ops = 0
    /\ rec = [pc |-> "load", saved |-> <<>>, idx |-> 1, sys |-> {},
              loaded |-> <<>>, res |-> "none"]
    /\ monitors = EmptyBag
    /\ LogRegistered
    /\ database \in BOOLEAN
    /\ store = <<>>
    /\ fileEntries = [s \in Services |-> <<>>]
    /\ reply = NoReply
    /\ LocksFree

SpecQuery == QueryInit /\ [][QueryNext]_vars

(* -------------------- file-to-database migration ----------------------- *)
\* log_manager.rs 497-543: migrate_file_logs_to_db reads every non-blank line
\* of the service's file, parses it and hands the entries to
\* insert_logs_batch; without a database or without lines it returns Ok(0)
MigrateFileLogsToDb(s, failAt) ==
    IF database /\ fileEntries[s] # <<>>
    THEN InsertLogsBatch(fileEntries[s], failAt)
    ELSE /\ failAt = 0
         /\ reply' = [op |-> "migrate_file_logs_to_db", ok |-> TRUE]
         /\ UNCHANGED <<database, store, fileEntries>>
         /\ UNCHANGED <<supVars, tailVars, lockVars>>

\* server.rs 76-95: the watchers run from registration on, the migration task
\* runs over the registered services five seconds later
MigrateNext ==
    \/ \E e \in QueryEntries : LogLine(e)
    \/ \E s \in Services, n \in 0..MaxLines : MigrateFileLogsToDb(s, n)

SpecMigrate == LogInit /\ [][MigrateNext]_vars

(* ------------------- registration over an existing file ---------------- *)
\* what a boot can find at {logs_dir}/{service_id}.log: nothing, or the bytes
\* a previous run of the service left there
PriorLogs == {<<>>, <<"x", Newline>>, <<"x", Newline, "x">>}

\* log_manager.rs 52-71: File::create opens the file for writing, creating it
\* or truncating it to length zero; then the channel, offset 0 and the watcher.
\* A failed create returns before anything is registered (server.rs 78 drops
\* the error)
RegisterService(createOk) ==
    /\ wpc = "unregistered"
    /\ IF createOk
       THEN /\ logFile' = <<>>
            /\ log_positions' = 0
            /\ last_position' = 0
            /\ published' = <<>>
            /\ wpc' = "sleep"
       ELSE UNCHANGED <<logFile, log_positions, last_position, published, wpc>>
    /\ UNCHANGED <<current_size, new_lines, reset, subs>>
    /\ UNCHANGED <<supVars, dbVars, lockVars>>

RegisterNext ==
    \/ \E k \in BOOLEAN : RegisterService(k)
    \/ LogNext

\* the supervisor idle at a boot, the service's log not yet registered
RegisterInit ==
    /\ processes = << >>
    /\ wlock = NoTask
    /\ stateFile = [readable |-> TRUE, services |-> <<>>]
    /\ alive = {}
    /\ known = Services
    /\ auto_restart = TRUE
    /\ nextPid = FirstFreshPid
    /\ pc = [c \in Callers |-> "idle"]
    /\ op = [c \in Callers |-> "none"]
    /\ sid = [c \in Callers |-> "s1"]
    /\ service = [c \in Callers |-> 0]
    /\ child = [c \in Callers |-> NoChild]
    /\ loaded = [c \in Callers |-> <<>>]
    /\ res = [c \in Callers |-> "none"]
    /\ removed = [c \in Callers |-> FALSE]
    /\ ops = 0
    /\ rec = [pc |-> "load", saved |-> <<>>, idx |-> 1, sys |-> {},
              loaded |-> <<>>, res |-> "none"]
    /\ monitors = EmptyBag
    /\ logFile \in PriorLogs
    /\ wpc = "unregistered"
    /\ last_position = 0
    /\ current_size = 0
    /\ new_lines = <<>>
    /\ log_positions = 0
    /\ published = <<>>
    /\ reset = FALSE
    /\ subs = [u \in 1..NumSubs |-> NoReceiver]
    /\ DatabaseOpened
    /\ LocksFree

SpecRegister == RegisterInit /\ [][RegisterNext]_vars

(* ------------------------------ the locks ------------------------------ *)
\* One step of an operation on a lock: `.read().await` / `.write().await`
\* asks for the guard and waits for it, dropping the guard (by drop(), at the
\* end of its statement or at the end of its scope) gives the lock back
Acquire(l, m) == [do |-> "acquire", lock |-> l, mode |-> m]
Drop(l) == [do |-> "drop", lock |-> l, mode |-> "none"]

\* process_manager.rs 214 (recover_processes: 514): the insert takes the write
\* guard as a temporary of its statement
start_service_locks == <<Acquire("processes", "write"), Drop("processes")>>

\* process_manager.rs 253-269: the write guard lives to the end of the
\* function, over kill, wait and remove_service
stop_service_locks == <<Acquire("processes", "write"), Drop("processes")>>

\* mutant: the read guard is still held when the write guard is asked for
get_service_status_upgrades ==
    <<Acquire("processes", "read"), Acquire("processes", "write"),
      Drop("processes"), Drop("processes")>>

\* process_manager.rs 286-311: read guard, drop(processes) (line 297), write
\* guard to the return
get_service_status_locks ==
    <<Acquire("processes", "read"), Drop("processes"),
      Acquire("processes", "write"), Drop("processes")>>

\* process_manager.rs 369-446: one round of the loop with a respawn: write
\* guard (372), drop (395) before the backoff, write guard again (433) to the
\* end of the block
monitor_process_locks ==
    <<Acquire("processes", "write"), Drop("processes"),
      Acquire("processes", "write"), Drop("processes")>>

\* process_manager.rs 567-590: write guard (570), dropped (585) before
\* remove_service
monitor_recovered_process_locks ==
    <<Acquire("processes", "write"), Drop("processes")>>

\* log_manager.rs 63-65: three inserts, each guard a temporary of its statement
register_service_locks ==
    <<Acquire("log_files", "write"), Drop("log_files"),
      Acquire("log_senders", "write"), Drop("log_senders"),
      Acquire("log_positions", "write"), Drop("log_positions")>>

\* log_manager.rs 85-90, 130: one poll of the watcher: read guard on the
\* senders, dropped (line 90) before the file is read; write guard on the
\* offsets for the insert
start_log_watcher_locks ==
    <<Acquire("log_senders", "read"), Drop("log_senders"),
      Acquire("log_positions", "write"), Drop("log_positions")>>

\* log_manager.rs 196-199: read guard for the subscribe
get_log_receiver_locks == <<Acquire("log_senders", "read"), Drop("log_senders")>>

\* the lock steps of every operation that takes one of the four locks
lock_steps ==
    [start_service |-> start_service_locks,
     stop_service |-> stop_service_locks,
     get_service_status |-> get_service_status_locks,
     monitor_process |-> monitor_process_locks,
     monitor_recovered_process |-> monitor_recovered_process_locks,
     register_service |-> register_service_locks,
     start_log_watcher |-> start_log_watcher_locks,
     get_log_receiver |-> get_log_receiver_locks]

\* the lock step task t is at
step_of(t) == lock_steps[tasks[t].op][tasks[t].at]

\* tokio::sync::RwLock: a write guard needs the lock to itself, a read guard
\* needs no writer
compatible(l, m) ==
    IF m = "write"
    THEN locks[l].writer = NoTask /\ locks[l].readers = {}
    ELSE locks[l].writer = NoTask

\* a task is spawned for, or a handler receives, operation o (tasks are
\* interchangeable: the lowest idle one takes it)
Begin(t, o) ==
    /\ tasks[t].op = "none"
    /\ \A d \in Tasks : d < t => tasks[d].op # "none"
    /\ tasks' = [tasks EXCEPT ![t] = [op |-> o, at |-> 1, waiting |-> FALSE]]
    /\ UNCHANGED locks
    /\ UNCHANGED <<supVars, logVars>>

\* `.read().await` / `.write().await`: the task joins the waiters of the lock
\* (the RwLock serves them in the order they came)
Ask(t) ==
    /\ tasks[t].op # "none" /\ ~tasks[t].waiting
    /\ step_of(t).do = "acquire"
    /\ locks' = [locks EXCEPT ![step_of(t).lock].queue =
                    Append(@, [task |-> t, mode |-> step_of(t).mode])]
    /\ tasks' = [tasks EXCEPT ![t].waiting = TRUE]
    /\ UNCHANGED <<supVars, logVars>>

\* the first waiter of lock l gets its guard
Grant(l) ==
    /\ locks[l].queue # <<>>
    /\ LET w == Head(locks[l].queue) IN
          /\ compatible(l, w.mode)
          /\ locks' = [locks EXCEPT
                          ![l].queue = Tail(@),
                          ![l].writer = IF w.mode = "write" THEN w.task ELSE @,
                          ![l].readers = IF w.mode = "read" THEN @ \cup {w.task} ELSE @]
          /\ tasks' = [tasks EXCEPT ![w.task].waiting = FALSE,
                                    ![w.task].at = @ + 1]
    /\ UNCHANGED <<supVars, logVars>>

\* the guard is dropped; after its last guard the operation returns (or the
\* loop of a monitor or watcher goes to sleep)
Unlock(t) ==
    /\ tasks[t].op # "none" /\ ~tasks[t].waiting
    /\ step_of(t).do = "drop"
    /\ locks' = [locks EXCEPT
                    ![step_of(t).lock].writer = IF @ = t THEN NoTask ELSE @,
                    ![step_of(t).lock].readers = @ \ {t}]
    /\ tasks' = [tasks EXCEPT
                    ![t] = IF tasks[t].at = Len(lock_steps[tasks[t].op])
                           THEN [op |-> "none", at |-> 1, waiting |-> FALSE]
                           ELSE [@ EXCEPT !.at = @ + 1]]
    /\ UNCHANGED <<supVars, logVars>>

LockNext ==
    \/ \E t \in Tasks, o \in DOMAIN lock_steps : Begin(t, o)
    \/ \E t \in Tasks : Ask(t)
    \/ \E l \in Locks : Grant(l)
    \/ \E t \in Tasks : Unlock(t)

\* Scheduling: the runtime runs every ready task, so a task that has begun an
\* operation takes its next step, and a lock hands its guard to its first
\* waiter once it can
LockFairness ==
    /\ \A t \in Tasks : WF_vars(Ask(t)) /\ WF_vars(Unlock(t))
    /\ \A l \in Locks : WF_vars(Grant(l))

SpecLocks == LogInit /\ [][LockNext]_vars /\ LockFairness

(* ============================== claims ================================ *)
\* what get_service_status(s) would return in the current state
status_now(s) ==
    IF ~Managed(s) THEN "None"
    ELSE IF processes[s].child = NoChild /\ ~process_exists(processes[s].pid)
         THEN "Stopped"
         ELSE processes[s].status

\* the number of running monitor_process tasks of service s at one of pcs
MonCount(s, pcs) ==
    LET S == {m \in Running : m.kind = "mon" /\ m.sid = s /\ m.pc \in pcs}
    IN BagCardinality([m \in S |-> monitors[m]])

MonPcs == {"poll", "backoff", "install"}

\* the step in which start_service (also the one inside restart) returns Ok
StartReturnsOk(c) ==
    /\ pc[c] \in {"start_load", "start_save"}
    /\ pc'[c] = "idle"
    /\ res'[c] = "ok"

\* the step in which stop_service (also the one inside restart) returns
StopReturns(c) ==
    /\ pc[c] \in {"stop_load", "stop_save"}
    /\ pc'[c] \notin {"stop_load", "stop_save"}

\* the step in which restart_service returns
RestartReturns(c) ==
    /\ op[c] = "restart"
    /\ pc[c] # "idle"
    /\ pc'[c] = "idle"

\* the step in which a monitor finds the child of s exited and clears the handle
ExitObserved(s) ==
    /\ Managed(s) /\ Managed(s)'
    /\ processes[s].child # NoChild
    /\ processes'[s].child = NoChild

\* C1: when start(service) returns success, status(service.id) is Running and
\* the state file holds a record of the service with the pid of the spawned
\* process.
C1_StartedIsRunningAndPersisted ==
    [][\A c \in Callers, s \in Services :
          (StartReturnsOk(c) /\ sid[c] = s) =>
             /\ status_now(s)' = "Running"
             /\ ServiceState(s, child[c]) \in Persisted']_vars

\* C2: the attempt counter never exceeds max_restart_attempts; an observed
\* exit with attempts left is counted once and leaves exactly one respawn
\* pending in the same monitor task; an observed exit with no attempt left
\* (or auto-restart off) leaves the entry with no handle and status Error and
\* ends the monitor task; a pending respawn spawns at most one process; and an
\* entry with no handle and no respawn pending gets no respawn.
C2_BoundedAutoRestart ==
    [][\A s \in Services :
          /\ Managed(s)' => processes'[s].restart_count <= max_restart_attempts
          /\ ExitObserved(s) =>
                /\ processes'[s].status = "Error"
                /\ IF auto_restart /\ processes[s].restart_count < max_restart_attempts
                   THEN /\ processes'[s].restart_count = processes[s].restart_count + 1
                        /\ MonCount(s, {"backoff"})' = MonCount(s, {"backoff"}) + 1
                        /\ MonCount(s, MonPcs)' = MonCount(s, MonPcs)
                   ELSE /\ processes'[s].restart_count = processes[s].restart_count
                        /\ MonCount(s, {"backoff", "install"})' =
                              MonCount(s, {"backoff", "install"})
                        /\ MonCount(s, MonPcs)' = MonCount(s, MonPcs) - 1
          /\ (nextPid' # nextPid /\ pc' = pc /\ MonCount(s, {"backoff"})' # MonCount(s, {"backoff"})) =>
                /\ MonCount(s, {"backoff"})' = MonCount(s, {"backoff"}) - 1
                /\ MonCount(s, {"install"})' = MonCount(s, {"install"}) + 1
                /\ nextPid' = nextPid + 1
          /\ (Managed(s) /\ processes[s].child = NoChild
                /\ MonCount(s, {"backoff", "install"}) = 0) =>
                MonCount(s, {"backoff", "install"})' = 0]_vars

\* C2 witness: a service whose respawned process exited again with the
\* attempts used up: no handle, status Error, no monitor task left.
C2_Witness ==
    \E s \in Services :
       /\ Managed(s)
       /\ auto_restart
       /\ processes[s].restart_count = max_restart_attempts
       /\ processes[s].child = NoChild
       /\ processes[s].status = "Error"
       /\ processes[s].pid >= FirstFreshPid + max_restart_attempts
       /\ processes[s].pid \notin alive
       /\ MonCount(s, MonPcs) = 0

\* C3: when restart(service_id) of a managed service returns success, the live
\* map holds an entry for it with a live handle, status Running and the pid
\* spawned by this restart.
C3_RestartLeavesRunning ==
    [][\A c \in Callers, s \in Services :
          (RestartReturns(c) /\ sid[c] = s /\ removed[c] /\ res'[c] = "ok") =>
             /\ Managed(s)'
             /\ processes'[s].child # NoChild
             /\ processes'[s].status = "Running"
             /\ processes'[s].pid = child[c]]_vars

\* C4: restart(service_id) of a service with no entry in the live map returns
\* an error and leaves the live map and the state file without the service.
C4_RestartUnknownFails ==
    [][\A c \in Callers, s \in Services :
          (RestartReturns(c) /\ sid[c] = s /\ ~removed[c]) =>
             /\ res'[c] = "err"
             /\ ~Managed(s)'
             /\ s \notin PersistedIds']_vars

\* C5: every stop(service_id) that has returned has returned success.
C5_StopAlwaysSucceeds ==
    \A c \in Callers : (pc[c] = "idle" /\ op[c] = "stop") => res[c] = "ok"

\* C5 witness: stop returned success for a service that had no entry, with a
\* state file whose load (and so the removal) failed.
C5_Witness ==
    \E c \in Callers :
       /\ pc[c] = "idle" /\ op[c] = "stop" /\ res[c] = "ok"
       /\ ~removed[c]
       /\ ~stateFile.readable

\* C6: in the step in which stop(service_id) returns, the live map has no
\* entry for the service and the state file has no record of it.
C6_StopRemovesBoth ==
    [][\A c \in Callers, s \in Services :
          (StopReturns(c) /\ sid[c] = s) =>
             /\ ~Managed(s)'
             /\ status_now(s)' = "None"
             /\ s \notin PersistedIds']_vars

\* C6 witness: stop has returned for a service it took out of the live map,
\* with a readable state file, and neither holds the service.
C6_Witness ==
    \E c \in Callers :
       /\ pc[c] = "idle" /\ op[c] = "stop" /\ res[c] = "ok"
       /\ removed[c]
       /\ stateFile.readable
       /\ nextPid > FirstFreshPid
       /\ ~Managed(sid[c])
       /\ sid[c] \notin PersistedIds

C8_RecoverDropsUnknown ==
    [][(rec.pc = "loop" /\ rec'.pc = "done") =>
          /\ \A i \in DOMAIN rec.saved : \A st \in {rec.saved[i]} :
                st.service_id \notin known =>
                   /\ st.service_id \notin PersistedIds'
                   /\ ~Managed(st.service_id)'
          /\ PersistedIds' \subseteq DOMAIN processes']_vars

\* C9: a start or stop writes the state file only after it has changed the
\* live map: start enters its load/save of the file in the step that inserts
\* the entry, stop holds the map lock with the entry gone while it loads and
\* saves, and a handler task writes the file only from a save position.
C9_LiveMapBeforeStore ==
    [][\A c \in Callers, s \in Services :
          sid'[c] = s =>
             /\ (pc[c] # "start_load" /\ pc'[c] = "start_load") =>
                   /\ pc[c] = "start_settle"
                   /\ stateFile' = stateFile
                   /\ Managed(s)'
                   /\ processes'[s].child = child[c]
                   /\ processes'[s].pid = child[c]
             /\ (pc[c] # "start_save" /\ pc'[c] = "start_save") => pc[c] = "start_load"
             /\ (pc[c] # "stop_save" /\ pc'[c] = "stop_save") => pc[c] = "stop_load"
             /\ pc'[c] \in {"stop_load", "stop_save"} => (wlock' = c /\ ~Managed(s)')
             /\ (pc'[c] # pc[c] /\ stateFile' # stateFile) =>
                   pc[c] \in {"start_save", "stop_save", "status_save"}]_vars

\* C9 witness: a start has inserted its entry and not yet written its record.
C9_Witness ==
    \E c \in Callers :
       /\ pc[c] = "start_save"
       /\ Managed(sid[c])
       /\ processes[sid[c]].pid = child[c]
       /\ ServiceState(sid[c], child[c]) \notin Persisted

\* C10: when the monitor task installs the handle and pid of a respawned
\* process in the live map of a service that has a record in the state file,
\* the record of the service holds the new pid.
C10_RespawnIsPersisted ==
    [][\A s \in Services :
          (/\ pc' = pc
           /\ s \in PersistedIds
           /\ Managed(s) /\ Managed(s)'
           /\ processes[s].child = NoChild
           /\ processes'[s].child # NoChild) =>
             ServiceState(s, processes'[s].pid) \in Persisted']_vars

\* the step is taken by handler task c (a call, or a later step of its call)
CallerStep(c) ==
    \/ pc'[c] # pc[c]
    \/ /\ ops' # ops
       /\ pc[c] = "idle"
       /\ \A d \in Callers : d < c => pc[d] # "idle"

\* the monitor task of s has given up: no handle, status Error, no task left
GivenUp(s) ==
    /\ Managed(s)
    /\ processes[s].child = NoChild
    /\ processes[s].status = "Error"
    /\ ~may_restart(processes[s])
    /\ MonCount(s, MonPcs) = 0

\* C11: once the monitor task of a service has ended with the entry left
\* without a handle and with status Error, no background step changes the
\* entry, and a status query of the service returns Error and changes neither
\* the live map nor the state file.
C11_GivenUpStaysError ==
    [][\A s \in Services :
          GivenUp(s) =>
             /\ (pc' = pc /\ ops' = ops) =>
                   (Managed(s)' /\ processes'[s] = processes[s])
             /\ \A c \in Callers :
                   (CallerStep(c) /\ op'[c] = "status" /\ sid'[c] = s) =>
                      /\ pc'[c] = "idle"
                      /\ res'[c] = "Error"
                      /\ processes' = processes
                      /\ stateFile' = stateFile]_vars

\* the step in which get_service_status returns from its dead-pid branch
StatusReturnsDead(c) ==
    /\ pc[c] \in {"status_load", "status_save"}
    /\ pc'[c] = "idle"

\* C12: status of an id with no entry returns None and changes nothing; status
\* of a handle-less entry whose pid is alive returns the stored status and
\* changes nothing; status of a handle-less entry whose pid is gone takes the
\* dead-pid branch, in which the entry (if still there) is marked Stopped, and
\* when it returns it returns Stopped, the entry (if any) is Stopped and the
\* state file has no record of the service.
C12_StatusContract ==
    [][\A c \in Callers, s \in Services :
          /\ (CallerStep(c) /\ pc[c] = "idle" /\ op'[c] = "status" /\ sid'[c] = s) =>
                IF ~Managed(s)
                THEN /\ pc'[c] = "idle" /\ res'[c] = "None"
                     /\ processes' = processes /\ stateFile' = stateFile
                ELSE IF processes[s].child = NoChild
                     THEN IF process_exists(processes[s].pid)
                          THEN /\ pc'[c] = "idle"
                               /\ res'[c] = processes[s].status
                               /\ processes' = processes
                               /\ stateFile' = stateFile
                          ELSE pc'[c] = "status_write"
                     ELSE TRUE
          /\ (pc[c] = "status_write" /\ pc'[c] # "status_write" /\ sid[c] = s) =>
                /\ pc'[c] = "status_load"
                /\ Managed(s) => (Managed(s)' /\ processes'[s].status = "Stopped")
          /\ (StatusReturnsDead(c) /\ sid[c] = s) =>
                /\ res'[c] = "Stopped"
                /\ Managed(s)' => processes'[s].status = "Stopped"
                /\ s \notin PersistedIds']_vars

\* C12 witness: status has returned Stopped for a recovered entry whose pid is
\* gone; the entry is Stopped and its record is out of the readable state file.
C12_Witness ==
    \E c \in Callers :
       /\ pc[c] = "idle" /\ op[c] = "status" /\ res[c] = "Stopped"
       /\ ops = 1
       /\ Managed(sid[c])
       /\ processes[sid[c]].child = NoChild
       /\ processes[sid[c]].pid = OldPid(sid[c])
       /\ processes[sid[c]].status = "Stopped"
       /\ OldPid(sid[c]) \notin alive
       /\ stateFile.readable
       /\ sid[c] \notin PersistedIds

\* the step in which start_service (also the one inside restart) returns Err
StartFails(c) ==
    /\ CallerStep(c)
    /\ pc[c] \in {"idle", "restart_start", "start_settle"}
    /\ op'[c] \in {"start", "restart"}
    /\ pc'[c] = "idle"
    /\ res'[c] = "err"

\* C13: no step of a start that fails (the step that returns the error, and
\* the spawn step before a failed settle check) changes the live map, the
\* state file or the set of monitor tasks.
C13_FailedStartNoEffect ==
    [][\A c \in Callers :
          (StartFails(c) \/ (pc[c] # "start_settle" /\ pc'[c] = "start_settle")) =>
             /\ processes' = processes
             /\ stateFile' = stateFile
             /\ monitors' = monitors]_vars

\* C13 witness: the only call so far was a start whose process was spawned and
\* had exited at the settle check; it returned an error and the service has no
\* entry, no record and no monitor task.
C13_Witness ==
    \E c \in Callers :
       /\ pc[c] = "idle" /\ op[c] = "start" /\ res[c] = "err"
       /\ ops = 1
       /\ nextPid = FirstFreshPid + 1
       /\ ~Managed(sid[c])
       /\ sid[c] \notin PersistedIds
       /\ MonCount(sid[c], MonPcs) = 0

\* the recovered-process monitor tasks of service s
RecMon(s) == {m \in Running : m.kind = "rec" /\ m.sid = s}

RecMonAt(s, at) == {m \in RecMon(s) : m.pc = at}

\* C14: a recovered-process monitor changes neither the live map nor the state
\* file while its pid is alive; the poll that finds the pid gone with the
\* entry in the live map marks the entry Stopped; the save that ends the task
\* leaves the state file without a record of the service; and a monitor whose
\* pid is gone eventually terminates.
C14_RecoveredMonitor ==
    /\ [][\A s \in Services :
             /\ (RecMonAt(s, "poll") # {} /\ RecMonAt(s, "load")' # {}) =>
                   /\ \A m \in RecMonAt(s, "poll") : ~process_exists(m.pid)
                   /\ Managed(s)'
                   /\ processes'[s].status = "Stopped"
             /\ (RecMonAt(s, "save") # {} /\ RecMon(s)' = {}) =>
                   s \notin PersistedIds'
             /\ (RecMon(s)' # RecMon(s) /\ RecMon(s) # {}
                   /\ \A m \in RecMon(s) : process_exists(m.pid)) =>
                   /\ processes' = processes
                   /\ stateFile' = stateFile]_vars
    /\ \A s \in Services :
          (\E m \in RecMon(s) : ~process_exists(m.pid)) ~> (RecMon(s) = {})

\* C14 witness: with no call made, the monitor of recovered s1 has found the
\* pid gone, marked the entry Stopped, removed the record and ended.
C14_Witness ==
    /\ Booted /\ ops = 0
    /\ OldPid("s1") \in rec.sys
    /\ OldPid("s1") \notin alive
    /\ Managed("s1")
    /\ processes["s1"].child = NoChild
    /\ processes["s1"].status = "Stopped"
    /\ RecMon("s1") = {}
    /\ stateFile.readable
    /\ "s1" \notin PersistedIds

C16_CorruptFileIsNoPriorState ==
    [][rec.res = "err" =>
          /\ (ops = 0 /\ ops' = 0) => processes' = << >>
          /\ \A c \in Callers, s \in Services :
                (StartReturnsOk(c) /\ sid[c] = s) =>
                   ServiceState(s, child[c]) \in Persisted']_vars

\* a monitor task of service a takes the step
MonitorStepOf(a) ==
    /\ pc' = pc /\ ops' = ops /\ rec' = rec
    /\ \E m \in Running :
          m.sid = a /\ CopiesIn(m, monitors') < CopiesIn(m, monitors)

\* a stop, a status query or the failing step of a start of service a
CallerStepOn(a) ==
    \E c \in Callers :
       /\ CallerStep(c)
       /\ sid'[c] = a
       /\ op'[c] \in {"stop", "status"} \/ StartFails(c)

EntryOf(b) == IF Managed(b) THEN <<processes[b]>> ELSE << >>

RecordOf(b) == {st \in Persisted : st.service_id = b}

\* C17: a step of a stop, a status query, a failing start or a monitor task of
\* service a changes neither the live-map entry nor the state-file record of
\* another service b.
C17_ServiceIsolation ==
    [][\A a \in Services, b \in Services :
          (a # b /\ (MonitorStepOf(a) \/ CallerStepOn(a))) =>
             /\ EntryOf(b)' = EntryOf(b)
             /\ RecordOf(b)' = RecordOf(b)]_vars

\* the step in which the watcher publishes the lines of a poll whose seek to
\* the stored offset worked
PublishesNoReset ==
    /\ wpc = "publish" /\ wpc' = "sleep"
    /\ ~reset

\* C18: the stored offset never decreases, and a poll that did not have to
\* reset after a seek failure publishes no line that starts at or before the
\* stored offset.
C18_OffsetMonotonic ==
    [][/\ log_positions' >= log_positions
       /\ PublishesNoReset =>
             \A i \in DOMAIN new_lines : new_lines[i].from > log_positions]_vars

\* C18 witness: two polls with an append in between have published one line
\* each, the second from behind the offset the first one stored.
C18_Witness ==
    /\ wpc = "sleep"
    /\ Len(published) = 2
    /\ published[1].to < published[2].from
    /\ published[2].from > 2
    /\ log_positions = Len(logFile)

\* entry e is a whole line of the file: it starts at a line start and is
\* ended by a newline
Complete(e) ==
    /\ e.from = 1 \/ logFile[e.from - 1] = Newline
    /\ e.to < Len(logFile)
    /\ logFile[e.to + 1] = Newline

\* C19: a poll (without seek failure) publishes no complete line that has
\* been published before.
C19_AtMostOnce ==
    [][PublishesNoReset =>
          \A i \in DOMAIN new_lines, j \in DOMAIN published :
             (Complete(new_lines[i]) /\ Complete(published[j])) =>
                new_lines[i].from > published[j].to]_vars

\* C20: every published line was ended by a newline in the file, and the
\* stored offset is never past the last newline.
C20_NewlineBoundaries ==
    /\ \A j \in DOMAIN published :
          /\ published[j].to < Len(logFile)
          /\ logFile[published[j].to + 1] = Newline
    /\ log_positions = 0 \/ logFile[log_positions] = Newline


\* C21: a receiver taken after k entries were published is handed none of
\* those k entries, only entries published after the subscribe call
C21_LateSubscriber ==
    \A u \in Subs : subs[u].on =>
        \A i \in 1..Len(subs[u].received) :
            subs[u].received[i] > subs[u].since

C21_Witness ==
    \E u \in Subs : /\ subs[u].on
                     /\ subs[u].since >= 2
                     /\ subs[u].received # <<>>


\* the indexes sent after subscribe that receiver u has been moved past
Passed(u) == (subs[u].since + 1) .. (subs[u].next - 1)

\* the indexes u has been handed, as a set
Handed(u) == {subs[u].received[i] : i \in 1..Len(subs[u].received)}

\* C22 as stated: a receiver is handed every entry published after its
\* subscribe call, in publish order, at any number of entries and read speed
C22_SeesEveryEntry ==
    \A u \in Subs : subs[u].on =>
        \A i \in 1..Len(subs[u].received) :
            subs[u].received[i] = subs[u].since + i

\* C22 as amended: a receiver is handed entries published after its subscribe
\* call in publish order, none twice; every entry it has passed was handed to
\* it or missed, and it misses only entries the channel no longer held, so it
\* is handed every entry while it is never more than Capacity entries behind
C22_SeesEveryRetainedEntry ==
    \A u \in Subs : subs[u].on =>
        /\ \A i \in 1..Len(subs[u].received) :
              /\ subs[u].received[i] > subs[u].since
              /\ i > 1 => subs[u].received[i] > subs[u].received[i - 1]
        /\ Handed(u) \cup subs[u].missed = Passed(u)
        /\ Handed(u) \cap subs[u].missed = {}
        /\ \A j \in subs[u].missed : j < oldest_retained

C22_Witness ==
    \E u \in Subs :
        /\ subs[u].missed # {}
        /\ \E i \in 1..Len(subs[u].received) :
              \A j \in subs[u].missed : subs[u].received[i] > j

\* C23: a send never waits for a receiver; a receiver that fell more than
\* Capacity behind has missed only its own oldest unread entries; a receiver
\* that did not fall behind has been handed every entry since it subscribed,
\* whatever the other receivers of the channel have missed
C23_PublishNeverBlocks ==
    /\ wpc = "publish" => ENABLED WatcherPublish
    /\ \A u \in Subs : subs[u].on =>
          /\ \A j \in subs[u].missed : \A k \in Handed(u) \cup {subs[u].next} :
                k > j => \A l \in j..k : l \in Handed(u) \cup subs[u].missed
                                          \cup {subs[u].next}
          /\ subs[u].missed = {} =>
                subs[u].received = [i \in 1..(subs[u].next - subs[u].since - 1)
                                       |-> subs[u].since + i]

C23_Witness ==
    \E u \in Subs, v \in Subs :
        /\ subs[u].on /\ subs[v].on
        /\ subs[u].since = subs[v].since
        /\ subs[u].missed # {}
        /\ subs[v].missed = {}
        /\ Len(subs[v].received) > Capacity


Range(q) == {q[i] : i \in DOMAIN q}

\* the time row i of the table was stored with
stored_time(i) == parse_from_rfc3339(store[i].timestamp)

ErrorRows == {i \in 1..Len(store) : store[i].level = "error"}

OnlyLevel(f) ==
    /\ ~f.service_id.some /\ ~f.from.some /\ ~f.to.some /\ ~f.search.some
    /\ f.offset = 0

\* C24: on the durable store a query with level=error returns exactly the
\* rows whose level is error, as many as the limit allows, none of them twice
\* and oldest first; level=all in any letter case returns all rows
C24_LevelFilter ==
    (reply.op = "get_logs" /\ OnlyLevel(reply.filters)
                           /\ reply.filters.level.some) =>
        /\ reply.ok
        /\ Cardinality(Range(reply.rows)) = Len(reply.rows)
        /\ reply.logs = EntriesAt(reply.rows)
        /\ \A i \in 1..Len(reply.logs), j \in 1..Len(reply.logs) :
              i < j => reply.logs[i].timestamp <= reply.logs[j].timestamp
        /\ reply.filters.level.v = "error" =>
              /\ Range(reply.rows) \subseteq ErrorRows
              /\ \A i \in 1..Len(reply.logs) : reply.logs[i].level = "error"
              /\ Len(reply.rows) =
                    Min(reply.filters.limit, Cardinality(ErrorRows))
        /\ reply.filters.level.v \in {"all", "ALL", "All"} =>
              Len(reply.rows) = Min(reply.filters.limit, Len(store))

C24_Witness ==
    /\ reply.op = "get_logs"
    /\ reply.filters.level = Some("error")
    /\ Len(reply.logs) = 2
    /\ reply.logs[1].timestamp < reply.logs[2].timestamp
    /\ Len(store) = 3
    /\ reply.filters.limit = 3


\* the filters of query q that are active
Active(q) ==
    (IF q.level_filter.some /\ q.level_filter.v \notin {"all", "ALL", "All"}
     THEN {"level"} ELSE {})
    \cup (IF q.from.some THEN {"from"} ELSE {})
    \cup (IF q.to.some THEN {"to"} ELSE {})
    \cup (IF q.search.some /\ q.search.v # <<>> THEN {"search"} ELSE {})

\* entry e passes filter p of query q
Passes(p, e, q) ==
    CASE p = "level" -> e.level = to_lowercase(q.level_filter.v)
      [] p = "from" -> e.timestamp >= q.from.v
      [] p = "to" -> e.timestamp <= q.to.v
      [] p = "search" -> \E i \in 0..(Len(e.message) - Len(q.search.v)) :
                             \A j \in 1..Len(q.search.v) :
                                 lower_char(e.message[i + j]) =
                                     lower_char(q.search.v[j])

\* the rows of service s that pass every active filter of q
AllOf(s, q) ==
    {i \in 1..Len(store) :
        /\ store[i].service_id = s
        /\ \A p \in Active(q) : Passes(p, row_to_log_entry(store[i]), q)}

\* the lines of the file of s the query asks for in its mode
Asked(s, q) ==
    {i \in 1..Len(fileEntries[s]) :
        \/ Active(q) = {}
        \/ /\ q.use_or_operator
           /\ \E p \in Active(q) : Passes(p, fileEntries[s][i], q)
        \/ /\ ~q.use_or_operator
           /\ \A p \in Active(q) : Passes(p, fileEntries[s][i], q)}

\* C25: the database path returns rows that pass all active filters, whether
\* or not the caller selected OR; the file path returns, with OR, the lines
\* that pass at least one active filter, with AND those that pass all, and
\* every line when no filter is active (each up to the limit)
C25_OperatorModes ==
    (reply.op = "get_filtered_logs" /\ reply.ok) =>
        /\ Cardinality(Range(reply.rows)) = Len(reply.rows)
        /\ reply.path = "database" =>
              /\ Range(reply.rows) \subseteq AllOf(reply.service_id, reply.query)
              /\ Len(reply.rows) =
                    Min(reply.query.limit,
                        Cardinality(AllOf(reply.service_id, reply.query)))
        /\ reply.path = "file" =>
              /\ Range(reply.rows) \subseteq Asked(reply.service_id, reply.query)
              /\ Len(reply.rows) =
                    Min(reply.query.limit,
                        Cardinality(Asked(reply.service_id, reply.query)))

C25_Witness ==
    /\ reply.op = "get_filtered_logs"
    /\ reply.ok
    /\ reply.path = "file"
    /\ reply.query.use_or_operator
    /\ Cardinality(Active(reply.query)) >= 2
    /\ Len(reply.rows) = 1
    /\ Len(fileEntries[reply.service_id]) = 2
    /\ \E p \in Active(reply.query) :
          ~Passes(p, fileEntries[reply.service_id][reply.rows[1]], reply.query)


\* C26: when the database call of a filtered query fails, the query answers
\* with the result of the file path and not with an error
C26_FallsBackToFile ==
    [][\A q \in Queries :
          (database /\ GetFilteredLogs("s1", q, TRUE)) =>
              /\ reply'.ok
              /\ reply'.logs = FileEntriesAt("s1", file_lines("s1", q))]_vars


\* C27: a batch insert that fails at one of its entries reports the error and
\* leaves the table as it was before the call
C27_BatchAllOrNothing ==
    [][\A b \in Batches, n \in 1..2 :
          InsertLogsBatch(b, n) => (~reply'.ok /\ store' = store)]_vars

\* the rows of the table stored with a time before c / not before c
Older(c) == {i \in 1..Len(store) : stored_time(i) < c}

RECURSIVE Survivors(_, _)
Survivors(rows, c) ==
    IF rows = <<>> THEN <<>>
    ELSE IF parse_from_rfc3339(Head(rows).timestamp) < c
         THEN Survivors(Tail(rows), c)
         ELSE <<Head(rows)>> \o Survivors(Tail(rows), c)

\* C28: pruning with a retention of d days at the time now deletes exactly the
\* rows stored with a time strictly before now - d days and returns their
\* number; a call that finds no such row deletes nothing and returns 0
C28_RetentionExact ==
    [][\A now \in Nows, d \in Days :
          CleanupOldLogs(now, d) =>
              /\ store' = Survivors(store, now - d * DayLength)
              /\ reply'.deleted = Cardinality(Older(now - d * DayLength))
              /\ Older(now - d * DayLength) = {} =>
                    (store' = store /\ reply'.deleted = 0)
              /\ \A i \in 1..Len(store') :
                    parse_from_rfc3339(store'[i].timestamp)
                        >= now - d * DayLength]_vars

C28_Witness ==
    /\ reply.op = "cleanup_old_logs"
    /\ reply.deleted >= 1
    /\ \E i \in 1..Len(store) : stored_time(i) = reply.cutoff

\* C29: get_logs returns, oldest first, the limit newest matching rows that
\* follow the offset newest ones, and never more than limit rows
C29_Pagination ==
    reply.op = "get_logs" =>
        LET f == reply.filters
            M == Matching(f)
            R == Range(reply.rows)
        IN  /\ Len(reply.rows) <= f.limit
            /\ Cardinality(R) = Len(reply.rows)
            /\ R \subseteq M
            /\ Len(reply.rows) =
                  Min(f.limit, IF Cardinality(M) > f.offset
                               THEN Cardinality(M) - f.offset ELSE 0)
            /\ \E S \in SUBSET (M \ R) :
                  /\ Cardinality(S) = Min(f.offset, Cardinality(M))
                  /\ \A s \in S, r \in R : stored_time(s) >= stored_time(r)
                  /\ \A m \in M \ (R \cup S), r \in R :
                        stored_time(m) <= stored_time(r)
            /\ \A i \in 1..Len(reply.rows), j \in 1..Len(reply.rows) :
                  i < j => stored_time(reply.rows[i]) <= stored_time(reply.rows[j])
            /\ reply.logs = EntriesAt(reply.rows)

C29_Witness ==
    /\ reply.op = "get_logs"
    /\ reply.filters.limit = 1
    /\ reply.filters.offset = 1
    /\ Cardinality(Matching(reply.filters)) = 3
    /\ Len(reply.rows) = 1
    /\ \E a \in Matching(reply.filters), b \in Matching(reply.filters) :
          /\ stored_time(a) < stored_time(reply.rows[1])
          /\ stored_time(reply.rows[1]) < stored_time(b)


\* the table holds for service s the lines of its file, in the same order
SameEntries(s) ==
    \E rows \in [1..Len(fileEntries[s]) -> 1..Len(store)] :
        /\ \A i \in DOMAIN rows, j \in DOMAIN rows : i < j => rows[i] < rows[j]
        /\ Range(rows) = {i \in 1..Len(store) : store[i].service_id = s}
        /\ \A i \in DOMAIN rows :
              row_to_log_entry(store[rows[i]]) = fileEntries[s][i]

\* the lines of the file of s carry strictly increasing times
Chronological(s) ==
    \A i \in 1..Len(fileEntries[s]), j \in 1..Len(fileEntries[s]) :
        i < j => fileEntries[s][i].timestamp < fileEntries[s][j].timestamp

\* C30: on the same entries of a service (written in the order of their
\* times), with the same filters in AND mode and the same limit, the file
\* path of get_filtered_logs returns what the database path returns, also
\* when more entries match than the limit allows
C30_PathsAgree ==
    (/\ reply.op = "get_filtered_logs"
     /\ reply.ok
     /\ reply.path = "database"
     /\ ~reply.query.use_or_operator
     /\ SameEntries(reply.service_id)
     /\ Chronological(reply.service_id)) =>
        reply.logs = FileEntriesAt(reply.service_id,
                                   file_lines(reply.service_id, reply.query))

\* the number of monitor tasks of either kind (monitor_process and
\* monitor_recovered_process) that poll the live-map entry of service s
Monitoring(s) ==
    LET S == {m \in Running : m.sid = s}
    IN BagCardinality([m \in S |-> monitors[m]])

\* C31: at any time at most one monitor task, of either kind, is active for a
\* service id.
C31_OneMonitorPerService ==
    \A s \in Services : Monitoring(s) <= 1

\* a monitor task holds process p as the child it has just respawned and has
\* not yet offered to the live map
PendingInstall(p) ==
    \E m \in Running : m.kind = "mon" /\ m.pc = "install" /\ m.child = p

\* some live-map entry holds the handle of process p
Handled(p) ==
    \E s \in Services : Managed(s) /\ processes[s].child = p

\* C32: a respawn that a monitor task finishes after stop has removed the
\* entry of its service leaves no child running without a live-map entry:
\* when the task is done with the process it respawned, the process is held by
\* an entry or is not running.
C32_NoRespawnAfterStop ==
    [][\A p \in Pids :
          (PendingInstall(p) /\ ~PendingInstall(p)') =>
             (Handled(p)' \/ p \notin alive')]_vars

\* C33: a step that puts another handle in the live-map entry of a service
\* does not leave the process of the handle it replaces running.
C33_NoHandleReplacedWhileRunning ==
    [][\A s \in Services :
          (/\ Managed(s) /\ s \in DOMAIN processes'
           /\ processes[s].child # NoChild
           /\ processes'[s].child # processes[s].child) =>
             processes[s].child \notin alive']_vars

\* C34: a live-map entry that holds the handle of a process that has not
\* exited has status Running.
C34_LiveHandleIsRunning ==
    \A s \in Services :
       (Managed(s) /\ processes[s].child # NoChild /\ processes[s].child \in alive) =>
          processes[s].status = "Running"

\* a task working on service a rewrites the state file in this step
Saves(a) ==
    /\ stateFile' # stateFile
    /\ \/ \E c \in Callers :
             /\ pc[c] \in {"start_save", "stop_save", "status_save"}
             /\ pc'[c] # pc[c]
             /\ sid[c] = a
       \/ MonitorStepOf(a)

\* C36: a rewrite of the state file by an operation on service a leaves the
\* record of every other service b as the file held it.
C36_NoLostUpdate ==
    [][\A a \in Services, b \in Services :
          (a # b /\ Saves(a)) => RecordOf(b)' = RecordOf(b)]_vars

\* the step in which start_service or recover_processes inserts the entry of s
Inserted(s) ==
    \/ \E c \in Callers :
          sid[c] = s /\ pc[c] = "start_settle" /\ pc'[c] = "start_load"
    \/ /\ rec.pc = "loop" /\ rec'.pc = "add_load"
       /\ rec.saved[rec.idx].service_id = s

\* the step in which a monitor task installs the handle of a respawned process
Respawned(s) ==
    /\ pc' = pc /\ rec' = rec
    /\ Managed(s) /\ s \in DOMAIN processes'
    /\ processes[s].child = NoChild
    /\ processes'[s].child # NoChild

\* C35: the attempt counter of an entry never exceeds max_restart_attempts and
\* equals the restart_count of the entry's Service; it is 0 when start or
\* recover has inserted the entry, goes up by exactly 1 when an exit is
\* observed with an attempt left, and is otherwise left alone, also by the
\* step that installs a respawned process.
C35_RestartCount ==
    [][\A s \in Services :
          s \in DOMAIN processes' =>
             /\ processes'[s].restart_count <= max_restart_attempts
             /\ processes'[s].service_restart_count = processes'[s].restart_count
             /\ Inserted(s) => processes'[s].restart_count = 0
             /\ (Managed(s) /\ ~Inserted(s)) =>
                   processes'[s].restart_count =
                      IF ExitObserved(s) /\ may_restart(processes[s])
                      THEN processes[s].restart_count + 1
                      ELSE processes[s].restart_count
             /\ Respawned(s) =>
                   processes'[s].restart_count = processes[s].restart_count]_vars

\* the step in which handler task c takes a request to stop service s
StopCalled(c, s) ==
    /\ pc[c] = "idle" /\ pc'[c] # "idle"
    /\ op'[c] = "stop" /\ sid'[c] = s

\* C39: the step of stop that takes a handle-less entry out of the live map
\* leaves the process table as it is, and so does every later step of a stop;
\* when a stop that took out an entry returns, the live map has no entry of
\* the service, the state file has no record of it, and neither holds the pid
\* of the process recover had found for it.
C39_StopOnRecovered ==
    [][\A c \in Callers, s \in Services :
          /\ (StopCalled(c, s) /\ Managed(s) /\ processes[s].child = NoChild) =>
                /\ s \notin DOMAIN processes'
                /\ alive' = alive
          /\ (pc[c] \in {"stop_load", "stop_save"} /\ pc'[c] # pc[c]) =>
                alive' = alive
          /\ (StopReturns(c) /\ op[c] = "stop" /\ sid[c] = s /\ removed[c]) =>
                /\ s \notin DOMAIN processes'
                /\ s \notin PersistedIds'
                /\ \A b \in DOMAIN processes' : processes'[b].pid # OldPid(s)
                /\ \A st \in Persisted' : st.pid # OldPid(s)]_vars

\* C39 witness: stop has returned for a service whose entry was the one
\* recover had inserted (no process has been spawned since the boot); the
\* recovered process is still running, and neither the live map nor the
\* readable state file holds the service.
C39_Witness ==
    \E c \in Callers :
       /\ pc[c] = "idle" /\ op[c] = "stop" /\ res[c] = "ok"
       /\ removed[c]
       /\ nextPid = FirstFreshPid
       /\ OldPid(sid[c]) \in rec.sys
       /\ OldPid(sid[c]) \in alive
       /\ ~Managed(sid[c])
       /\ stateFile.readable
       /\ sid[c] \notin PersistedIds

\* the rows of the logs table that hold lines of service s
RowsOf(s) == {i \in 1..Len(store) : store[i].service_id = s}

\* C38: the logs table holds no more rows of a service than its log file
\* holds lines: no line of the file has been stored twice.
C38_StoredAtMostOnce ==
    \A s \in Services : Cardinality(RowsOf(s)) <= Len(fileEntries[s])

\* C40: the step in which register_service registers a service leaves the
\* bytes of the service's log file as they were.
C40_RegisterKeepsContent ==
    [][(wpc = "unregistered" /\ wpc' # "unregistered") => logFile' = logFile]_vars

\* task t holds a guard of lock l
Holds(t, l) == locks[l].writer = t \/ t \in locks[l].readers

\* the locks task t holds a guard of
HeldBy(t) == {l \in Locks : Holds(t, l)}

\* the operations of the log tailer
TailerOps == {"register_service", "start_log_watcher", "get_log_receiver"}

\* C37: no task waits for one of the four locks while it holds a guard of any
\* of them (of another lock, or of the same lock in the other mode); no task
\* of the log tailer ever holds or waits for the lock of the live map; and
\* every task that waits for a lock gets it.
C37_DeadlockFree ==
    /\ [](\A t \in Tasks :
             /\ tasks[t].waiting => HeldBy(t) = {}
             /\ tasks[t].op \in TailerOps =>
                   /\ ~Holds(t, "processes")
                   /\ \A i \in DOMAIN locks["processes"].queue :
                         locks["processes"].queue[i].task # t)
    /\ \A t \in Tasks : tasks[t].waiting ~> ~tasks[t].waiting

\* C37 witness: the watcher holds the write guard of the offsets and a stop
\* holds the write guard of the live map while a status query, its read guard
\* dropped, is the one waiter for the write guard of the live map.
C37_Witness ==
    \E t \in Tasks, u \in Tasks, v \in Tasks :
       /\ tasks[t].op = "start_log_watcher" /\ locks["log_positions"].writer = t
       /\ tasks[u].op = "stop_service" /\ locks["processes"].writer = u
       /\ tasks[v].op = "get_service_status" /\ tasks[v].waiting /\ tasks[v].at = 3
       /\ Len(locks["processes"].queue) = 1

====
